---- MODULE Spec2Model ----
(***************************************************************************)
(* Model of the posicionador_institucional package: the volume, open       *)
(* interest and events analyzers, the alert rules, the consolidation of    *)
(* alerts and the batch orchestrator of main.py.                           *)
(*                                                                         *)
(* Numbers that the code holds as floats are exact rationals here,         *)
(* records [num, den] in lowest terms.  Identifiers and dictionary keys    *)
(* are the source's names without accents.  A DataFrame is a record        *)
(* [columns, rows]; a row is a function from column names to values.       *)
(* Dates are counted in ticks (TicksPerDay ticks to a day) from            *)
(* 2025-01-01 00:00.                                                       *)
(***************************************************************************)
EXTENDS Integers, Sequences, FiniteSets, TLC

VARIABLES
    mode,                 \* which entry point of the package is being exercised
    pc,                   \* position inside that entry point
    alertas,              \* helpers.ordenar_alertas_por_prioridad: its argument
    ordenadas,            \* helpers.ordenar_alertas_por_prioridad: its result
    options_data,         \* the DataFrame handed to an analyzer (NULL for None)
    vol_result,           \* VolumeAnalyzer.analyze result / get_alerts argument
    vol_alerts,           \* VolumeAnalyzer.get_alerts result
    oi_result,            \* OpenInterestAnalyzer.analyze result
    oi_alerts,            \* OpenInterestAnalyzer.get_alerts result
    now,                  \* datetime.now(), in ticks
    dias_adelante,        \* lookahead of detectar_eventos_proximos, in days
    simbolo,              \* symbol handed to the events analyzer
    eventos,              \* result of detectar_eventos_proximos
    events_result,        \* EventsAnalyzer.analyze result
    events_alerts,        \* EventsAnalyzer.get_alerts result
    con_data_manager,     \* whether the EventsAnalyzer was built with a data manager
    simbolos,             \* ejecutar_analisis_completo: list of symbols
    idx,                  \* ejecutar_analisis_completo: next position in simbolos
    todos_resultados,     \* ejecutar_analisis_completo: {simbolo: resultado}
    orden_resultados,     \* insertion order of the keys of todos_resultados
    eventos_detectados_global,
    alertas_consolidadas, \* result of ReportGenerator.consolidar_alertas
    historia,             \* per loop iteration: what the fetch and the analyzers did
    opciones_cache,       \* DataManager.opciones_cache: {cache_key: DataFrame}
    precios_cache,        \* DataManager.precios_cache: {symbol: (precio, timestamp)}
    vencimientos_cache,   \* DataManager.vencimientos_cache: {symbol: (fechas, timestamp)}
    reloj,                \* datetime.now() of the data manager, in seconds
    llamadas,             \* calls of obtener_datos_opciones made so far
    retorno,              \* what the last call of obtener_datos_opciones returned
    compartidas,          \* cache keys whose stored DataFrame is the object in retorno
    poblado               \* per cache key, the table the fetch that stored it returned

vars == <<mode, pc, alertas, ordenadas, options_data, vol_result, vol_alerts,
          oi_result, oi_alerts, now, dias_adelante, simbolo, eventos,
          events_result, events_alerts, con_data_manager, simbolos, idx, todos_resultados,
          orden_resultados, eventos_detectados_global, alertas_consolidadas,
          historia, opciones_cache, precios_cache, vencimientos_cache, reloj,
          llamadas, retorno, compartidas, poblado>>

\* None, where the code passes or returns it in place of a DataFrame
NULL == [none |-> TRUE]

EmptyDict == <<>>

(***************************************************************************)
(* Exact rational arithmetic.                                              *)
(***************************************************************************)
RECURSIVE Gcd(_, _)
Gcd(a, b) == IF b = 0 THEN a ELSE Gcd(b, a % b)

Abs(x) == IF x < 0 THEN -x ELSE x

Sign(x) == IF x < 0 THEN -1 ELSE IF x > 0 THEN 1 ELSE 0

\* n / d in lowest terms; a zero denominator is the float inf (num = 1), -inf
\* (num = -1) or nan (num = 0) that numpy and pandas produce without raising
Rat(n, d) ==
    IF d = 0 THEN [num |-> Sign(n), den |-> 0]
    ELSE LET g == Gcd(Abs(n), Abs(d))
             s == Sign(d)
         IN  [num |-> (s * n) \div g, den |-> (s * d) \div g]

NaN == [num |-> 0, den |-> 0]

RatInt(n) == [num |-> n, den |-> 1]

RatZero == RatInt(0)

RatAdd(a, b) == Rat(a.num * b.den + b.num * a.den, a.den * b.den)

RatSub(a, b) == Rat(a.num * b.den - b.num * a.den, a.den * b.den)

RatMul(a, b) == Rat(a.num * b.num, a.den * b.den)

RatDiv(a, b) == Rat(a.num * b.den, a.den * b.num)

RatAbs(a) == [num |-> Abs(a.num), den |-> a.den]

RatLT(a, b) == a.num * b.den < b.num * a.den

RatLE(a, b) == a.num * b.den <= b.num * a.den

RatGT(a, b) == RatLT(b, a)

(***************************************************************************)
(* Sequence helpers.                                                       *)
(***************************************************************************)
\* s[a] + ... + s[b], added by halves
RECURSIVE SumRango(_, _, _)
SumRango(s, a, b) ==
    IF a > b THEN 0
    ELSE IF a = b THEN s[a]
    ELSE SumRango(s, a, (a + b) \div 2) + SumRango(s, ((a + b) \div 2) + 1, b)

SumSeq(s) == SumRango(s, 1, Len(s))

RECURSIVE RatSumRango(_, _, _)
RatSumRango(s, a, b) ==
    IF a > b THEN RatZero
    ELSE IF a = b THEN s[a]
    ELSE RatAdd(RatSumRango(s, a, (a + b) \div 2),
                RatSumRango(s, ((a + b) \div 2) + 1, b))

RatSumSeq(s) == RatSumRango(s, 1, Len(s))

Columna(rows, c) == [i \in 1..Len(rows) |-> rows[i][c]]

SeqRange(s) == {s[i] : i \in 1..Len(s)}

\* ascending sort of a sequence of integers: the element of rank k is the one
\* with k - 1 elements before it in the order (value, position)
Ordenar(s) ==
    LET Antes(j, i) == s[j] < s[i] \/ (s[j] = s[i] /\ j < i)
        Rango(i) == Cardinality({j \in 1..Len(s) : Antes(j, i)}) + 1
    IN  [k \in 1..Len(s) |-> s[CHOOSE i \in 1..Len(s) : Rango(i) = k]]

Reverso(s) == [i \in 1..Len(s) |-> s[Len(s) + 1 - i]]

Min(a, b) == IF a < b THEN a ELSE b

\* dict.get(key, default)
Get(d, k, default) == IF k \in DOMAIN d THEN d[k] ELSE default

(***************************************************************************)
(* config.py                                                               *)
(***************************************************************************)
UMBRAL_PCR_DEFENSIVO == Rat(12, 10)

UMBRAL_ROTACION == Rat(8, 10)

PERCENTIL_VOLUMEN_ALTO == 95

(***************************************************************************)
(* analyzers/base_analyzer.py                                              *)
(***************************************************************************)
Empty(df) == Len(df.rows) = 0

\* as validar_datos, without the test for an empty DataFrame
validar_datos_sin_empty(df, requerido) ==
    IF df = NULL THEN ~requerido ELSE TRUE

validar_datos(df, requerido) ==
    IF df = NULL \/ Empty(df) THEN ~requerido ELSE TRUE

(***************************************************************************)
(* analyzers/volume_analyzer.py                                            *)
(***************************************************************************)
\* per-contract rotation: np.where(openInterest > 0, volume / openInterest, 0)
vol_oi_individual(row) ==
    IF row["openInterest"] > 0 THEN Rat(row["volume"], row["openInterest"])
    ELSE RatZero

\* 1 / (abs(moneyness - 1) + 0.01)
peso_distancia(row) ==
    RatDiv(RatInt(1),
           RatAdd(RatAbs(RatSub(row["moneyness"], RatInt(1))), Rat(1, 100)))

\* as Quantile, the interpolation started one rank lower
Quantile_un_rango_abajo(valores, p) ==
    LET v   == Ordenar(valores)
        n   == Len(v)
        pos == (n - 1) * p
        lo  == IF pos < 100 THEN 1 ELSE pos \div 100
        hi  == Min(lo + 1, n)
    IN  IF n = 0 THEN NaN
        ELSE RatAdd(RatInt(v[lo]), Rat((pos % 100) * (v[hi] - v[lo]), 100))

\* Series.quantile(p / 100), linear interpolation between the two closest ranks
Quantile(valores, p) ==
    LET v   == Ordenar(valores)
        n   == Len(v)
        pos == (n - 1) * p
        lo  == (pos \div 100) + 1
        hi  == Min(lo + 1, n)
    IN  IF n = 0 THEN NaN
        ELSE RatAdd(RatInt(v[lo]), Rat((pos % 100) * (v[hi] - v[lo]), 100))

EsCall(row) == row["tipo"] = "CALL"

EsPut(row) == row["tipo"] = "PUT"

\* as EsITM, for the CALL rows alone
EsITM_solo_calls(row) == row["itm_otm"] = "ITM" /\ row["tipo"] = "CALL"

EsITM(row) == row["itm_otm"] = "ITM"

EsOTM(row) == row["itm_otm"] = "OTM"

Volumen(rows) == SumSeq(Columna(rows, "volume"))

\* as Ratio, with the quotient upside down
Ratio_invertido(num, den) == IF num > 0 THEN Rat(den, num) ELSE RatZero

\* the guarded division the analyzers use for every ratio of two totals:
\* num / den if den > 0 else 0
Ratio(num, den) == IF den > 0 THEN Rat(num, den) ELSE RatZero

\* the same guard on the two distance-weighted volumes
RatioPonderado(num, den) == IF RatGT(den, RatZero) THEN RatDiv(num, den) ELSE RatZero

\* as rotacion_promedio, but total volume over total open interest
rotacion_agregada(rows) ==
    Ratio(SumSeq(Columna(rows, "volume")), SumSeq(Columna(rows, "openInterest")))

\* options_data['vol_oi_individual'].mean()
rotacion_promedio(rows) ==
    RatDiv(RatSumSeq([i \in 1..Len(rows) |-> vol_oi_individual(rows[i])]),
           RatInt(Len(rows)))

VolumenPonderado(rows) ==
    RatSumSeq([i \in 1..Len(rows) |->
                  RatMul(RatInt(rows[i]["volume"]), peso_distancia(rows[i]))])

\* as EsAltaActividad, a volume equal to the percentile counted too
EsAltaActividad_no_estricto(volume, q_percentil) ==
    RatLE(q_percentil, RatInt(volume))

\* options_data['volume'] > q_percentil, for one contract
EsAltaActividad(volume, q_percentil) == RatGT(RatInt(volume), q_percentil)

VolumeAnalyzer_analyze(df) ==
    IF ~validar_datos(df, TRUE) THEN EmptyDict
    ELSE
    LET rows      == df.rows
        vol_calls == Volumen(SelectSeq(rows, EsCall))
        vol_puts  == Volumen(SelectSeq(rows, EsPut))
        vol_itm   == Volumen(SelectSeq(rows, EsITM))
        vol_otm   == Volumen(SelectSeq(rows, EsOTM))
        rotacion  == [i \in 1..Len(rows) |-> vol_oi_individual(rows[i])]
        AltaRotacion(r) == RatGT(r, RatInt(1))
        q_percentil == Quantile(Columna(rows, "volume"), PERCENTIL_VOLUMEN_ALTO)
        EsAlta(row) == EsAltaActividad(row["volume"], q_percentil)
        contratos_alta == SelectSeq(rows, EsAlta)
        vol_calls_pond == VolumenPonderado(SelectSeq(rows, EsCall))
        vol_puts_pond  == VolumenPonderado(SelectSeq(rows, EsPut))
    IN  [vol_total |-> Volumen(rows),
         vol_calls |-> vol_calls,
         vol_puts  |-> vol_puts,
         vol_put_call_ratio |-> Ratio(vol_puts, vol_calls),
         rotacion_promedio |-> rotacion_promedio(rows),
         alta_rotacion_count |-> Len(SelectSeq(rotacion, AltaRotacion)),
         contratos_alta_actividad |-> Len(contratos_alta),
         vol_alta_actividad |-> Volumen(contratos_alta)]
        @@ (IF "itm_otm" \in df.columns
            THEN [vol_itm |-> vol_itm,
                  vol_otm |-> vol_otm,
                  itm_otm_ratio |-> Ratio(vol_itm, vol_otm)]
            ELSE EmptyDict)
        @@ (IF "moneyness" \in df.columns
            THEN [vol_put_call_ponderado |->
                      RatioPonderado(vol_puts_pond, vol_calls_pond)]
            ELSE EmptyDict)

\* the DataFrame argument after analyze: the two columns analyze writes into it
VolumeAnalyzer_analyze_df(df) ==
    IF ~validar_datos(df, TRUE) THEN df
    ELSE
    LET ConRotacion(row) == ("vol_oi_individual" :> vol_oi_individual(row)) @@ row
        ConPeso(row) == ("peso_distancia" :> peso_distancia(row)) @@ row
        r1 == [i \in 1..Len(df.rows) |-> ConRotacion(df.rows[i])]
    IN  IF "moneyness" \in df.columns
        THEN [columns |-> df.columns \cup {"vol_oi_individual", "peso_distancia"},
              rows    |-> [i \in 1..Len(r1) |-> ConPeso(r1[i])]]
        ELSE [columns |-> df.columns \cup {"vol_oi_individual"}, rows |-> r1]

Alerta(tipo, prioridad, valor) ==
    [tipo |-> tipo, prioridad |-> prioridad, valor |-> valor]

\* as VolumeAnalyzer_get_alerts, the thresholds compared with >= instead of >
VolumeAnalyzer_get_alerts_no_estricto(analysis_results) ==
    (IF RatLE(UMBRAL_PCR_DEFENSIVO,
              Get(analysis_results, "vol_put_call_ratio", RatZero))
     THEN <<Alerta("VOLUMEN_PUTS_EXTREMO", "ALTA",
                   analysis_results["vol_put_call_ratio"])>>
     ELSE <<>>)
    \o
    (IF RatLE(UMBRAL_ROTACION, Get(analysis_results, "rotacion_promedio", RatZero))
     THEN <<Alerta("ALTA_ROTACION", "MEDIA", analysis_results["rotacion_promedio"])>>
     ELSE <<>>)
    \o
    (IF Get(analysis_results, "contratos_alta_actividad", 0) >= 5
     THEN <<Alerta("CONCENTRACION_VOLUMEN", "MEDIA",
                   RatInt(analysis_results["contratos_alta_actividad"]))>>
     ELSE <<>>)

VolumeAnalyzer_get_alerts(analysis_results) ==
    (IF RatGT(Get(analysis_results, "vol_put_call_ratio", RatZero),
              UMBRAL_PCR_DEFENSIVO)
     THEN <<Alerta("VOLUMEN_PUTS_EXTREMO", "ALTA",
                   analysis_results["vol_put_call_ratio"])>>
     ELSE <<>>)
    \o
    (IF RatGT(Get(analysis_results, "rotacion_promedio", RatZero), UMBRAL_ROTACION)
     THEN <<Alerta("ALTA_ROTACION", "MEDIA", analysis_results["rotacion_promedio"])>>
     ELSE <<>>)
    \o
    (IF Get(analysis_results, "contratos_alta_actividad", 0) > 5
     THEN <<Alerta("CONCENTRACION_VOLUMEN", "MEDIA",
                   RatInt(analysis_results["contratos_alta_actividad"]))>>
     ELSE <<>>)

(***************************************************************************)
(* analyzers/open_interest_analyzer.py                                     *)
(***************************************************************************)
OI(rows) == SumSeq(Columna(rows, "openInterest"))

\* DataFrame.nlargest(n, 'openInterest')['openInterest']: the n largest values
NLargest(n, valores) ==
    LET d == Reverso(Ordenar(valores))
    IN  SubSeq(d, 1, Min(n, Len(d)))

SortedKeys(S) ==
    [k \in 1..Cardinality(S) |->
        CHOOSE x \in S : Cardinality({y \in S : y < x}) = k - 1]

\* df.groupby(col)['openInterest'].sum(): one entry per key, keys ascending
GroupBySum(rows, col) ==
    LET keys == SortedKeys(SeqRange(Columna(rows, col)))
        DeClave(k) == LET Es(row) == row[col] = k IN SelectSeq(rows, Es)
    IN  [i \in 1..Len(keys) |-> [key |-> keys[i], sum |-> OI(DeClave(keys[i]))]]

\* Series.sort_values(ascending=False): entries of equal sum keep their order
SortValuesDesc(s) ==
    LET Antes(j, i) == s[j].sum > s[i].sum \/ (s[j].sum = s[i].sum /\ j < i)
        Rango(i) == Cardinality({j \in 1..Len(s) : Antes(j, i)}) + 1
    IN  [k \in 1..Len(s) |-> s[CHOOSE i \in 1..Len(s) : Rango(i) = k]]

OpenInterestAnalyzer_analyze(df) ==
    IF ~validar_datos(df, TRUE) THEN EmptyDict
    ELSE
    LET rows     == df.rows
        oi_calls == OI(SelectSeq(rows, EsCall))
        oi_puts  == OI(SelectSeq(rows, EsPut))
        top_5_oi == SumSeq(NLargest(5, Columna(rows, "openInterest")))
        total_oi == OI(rows)
        oi_itm   == OI(SelectSeq(rows, EsITM))
        oi_otm   == OI(SelectSeq(rows, EsOTM))
        oi_por_exp    == GroupBySum(rows, "expiration")
        oi_por_strike == SortValuesDesc(GroupBySum(rows, "strike"))
    IN  [oi_total |-> OI(rows),
         oi_calls |-> oi_calls,
         oi_puts  |-> oi_puts,
         oi_put_call_ratio |-> Ratio(oi_puts, oi_calls),
         oi_concentration |-> Ratio(top_5_oi * 100, total_oi),
         top_strike_oi |->
             IF Len(oi_por_strike) > 0 THEN oi_por_strike[1].key ELSE NULL,
         top_strike_oi_value |->
             IF Len(oi_por_strike) > 0 THEN oi_por_strike[1].sum ELSE 0]
        @@ (IF "itm_otm" \in df.columns
            THEN [oi_itm |-> oi_itm,
                  oi_otm |-> oi_otm,
                  oi_itm_otm_ratio |-> Ratio(oi_itm, oi_otm)]
            ELSE EmptyDict)
        @@ (IF "expiration" \in df.columns
            THEN [oi_vencimiento_cercano |->
                      IF Len(oi_por_exp) > 0 THEN oi_por_exp[1].sum ELSE 0,
                  oi_vencimiento_lejano |->
                      IF Len(oi_por_exp) > 0 THEN oi_por_exp[Len(oi_por_exp)].sum
                      ELSE 0]
            ELSE EmptyDict)

\* The strikes sort_values(ascending=False) can put first.  Its default kind
\* is 'quicksort', which promises no order among equal sums: numpy sorts up to
\* 16 entries by insertion, which keeps the groupby order (strike ascending)
\* among equals; above that the partitioning decides.
PrimerosPosibles(oi_por_strike) ==
    IF Len(oi_por_strike) <= 16
    THEN {SortValuesDesc(oi_por_strike)[i].key : i \in {j \in {1} : j <= Len(oi_por_strike)}}
    ELSE {oi_por_strike[i].key : i \in
             {j \in 1..Len(oi_por_strike) :
                 \A k \in 1..Len(oi_por_strike) :
                     oi_por_strike[k].sum <= oi_por_strike[j].sum}}

\* the dictionaries OpenInterestAnalyzer.analyze can return for df
OpenInterestAnalyzer_analyze_resultados(df) ==
    IF ~validar_datos(df, TRUE) THEN {OpenInterestAnalyzer_analyze(df)}
    ELSE {("top_strike_oi" :> k) @@ OpenInterestAnalyzer_analyze(df) :
             k \in PrimerosPosibles(GroupBySum(df.rows, "strike"))}

\* as OpenInterestAnalyzer_get_alerts, the thresholds compared with >= and <=
OpenInterestAnalyzer_get_alerts_no_estricto(analysis_results) ==
    LET oi_ratio == Get(analysis_results, "oi_itm_otm_ratio", RatZero)
    IN  (IF RatLE(Rat(13, 10), Get(analysis_results, "oi_put_call_ratio", RatZero))
         THEN <<Alerta("OI_PUTS_EXTREMO", "ALTA",
                       analysis_results["oi_put_call_ratio"])>>
         ELSE <<>>)
        \o
        (IF RatLE(RatInt(40), Get(analysis_results, "oi_concentration", RatZero))
         THEN <<Alerta("OI_CONCENTRADO", "MEDIA",
                       analysis_results["oi_concentration"])>>
         ELSE <<>>)
        \o
        (IF RatLE(Rat(15, 10), oi_ratio)
            \/ (RatGT(oi_ratio, RatZero) /\ RatLE(oi_ratio, Rat(3, 10)))
         THEN <<Alerta("OI_ITM_OTM_ANOMALO", "MEDIA", oi_ratio)>>
         ELSE <<>>)

OpenInterestAnalyzer_get_alerts(analysis_results) ==
    LET oi_ratio == Get(analysis_results, "oi_itm_otm_ratio", RatZero)
    IN  (IF RatGT(Get(analysis_results, "oi_put_call_ratio", RatZero), Rat(13, 10))
         THEN <<Alerta("OI_PUTS_EXTREMO", "ALTA",
                       analysis_results["oi_put_call_ratio"])>>
         ELSE <<>>)
        \o
        (IF RatGT(Get(analysis_results, "oi_concentration", RatZero), RatInt(40))
         THEN <<Alerta("OI_CONCENTRADO", "MEDIA",
                       analysis_results["oi_concentration"])>>
         ELSE <<>>)
        \o
        (IF RatGT(oi_ratio, Rat(15, 10))
            \/ (RatGT(oi_ratio, RatZero) /\ RatLT(oi_ratio, Rat(3, 10)))
         THEN <<Alerta("OI_ITM_OTM_ANOMALO", "MEDIA", oi_ratio)>>
         ELSE <<>>)

(***************************************************************************)
(* data/data_manager.py: the rows obtener_datos_opciones builds            *)
(***************************************************************************)
moneyness(strike, precio_actual) == Rat(strike, precio_actual)

\* as itm_otm, a contract at the money counted as ITM
itm_otm_con_igual(tipo, m) ==
    IF (tipo = "CALL" /\ RatLE(RatInt(1), m)) \/ (tipo = "PUT" /\ RatLE(m, RatInt(1)))
    THEN "ITM" ELSE "OTM"

itm_otm(tipo, m) ==
    IF (tipo = "CALL" /\ RatGT(m, RatInt(1))) \/ (tipo = "PUT" /\ RatLT(m, RatInt(1)))
    THEN "ITM" ELSE "OTM"

COLUMNAS == {"strike", "volume", "openInterest", "tipo", "expiration",
             "precio_subyacente", "moneyness", "itm_otm"}

Contrato(tipo, strike, volume, openInterest, expiration, precio_actual) ==
    [strike |-> strike, volume |-> volume, openInterest |-> openInterest,
     tipo |-> tipo, expiration |-> expiration,
     precio_subyacente |-> precio_actual,
     moneyness |-> moneyness(strike, precio_actual),
     itm_otm |-> itm_otm(tipo, moneyness(strike, precio_actual))]

DataFrame(rows) == [columns |-> COLUMNAS, rows |-> rows]

(***************************************************************************)
(* Inputs of the analyzers.                                                *)
(***************************************************************************)
MaxContratos == 2

MaxNumerador == 7

Tipos == {"CALL", "PUT"}

Strikes == {1, 2, 3}

Cantidades == {0, 1, 2}

PrecioMuestra == CHOOSE p \in Strikes : \E a, b \in Strikes : a < p /\ p < b

Contratos ==
    {Contrato(t, k, v, o, 1, PrecioMuestra) :
        t \in Tipos, k \in Strikes, v \in Cantidades, o \in Cantidades}

\* 10 CALLs of volume 100 and 10 PUTs of volume 200
EscenarioPutsExtremo ==
    DataFrame([i \in 1..20 |->
        IF i <= 10 THEN Contrato("CALL", 10, 100, 100, 1, 10)
        ELSE Contrato("PUT", 10, 200, 100, 1, 10)])

\* open interest spread evenly over 20 strikes, one row per strike
EscenarioOIUniforme ==
    DataFrame([i \in 1..20 |->
        Contrato(IF i % 2 = 0 THEN "CALL" ELSE "PUT", i, 0, 5, 1, 10)])

\* open interest spread evenly over 20 strikes, a CALL and a PUT row per strike
EscenarioOIUniformeCallPut ==
    DataFrame([i \in 1..40 |->
        IF i <= 20 THEN Contrato("CALL", i, 0, 3, 1, 10)
        ELSE Contrato("PUT", i - 20, 0, 2, 1, 10)])

\* all the open interest in one strike
EscenarioOIUnStrike ==
    DataFrame([i \in 1..6 |->
        Contrato("CALL", i, 0, IF i = 1 THEN 100 ELSE 0, 1, 10)])

\* six rows over five strikes, two expirations of the first strike
EscenarioSeisFilas ==
    DataFrame([i \in 1..6 |->
        IF i = 6 THEN Contrato("PUT", 1, 0, 1, 2, 10)
        ELSE Contrato("CALL", i, 0, 1, 1, 10)])

\* n CALLs of one strike whose volumes are all different
EscenarioVolumenesDistintos(n) ==
    DataFrame([i \in 1..n |-> Contrato("CALL", 10, i, 1, 1, 10)])

Escenarios ==
    {EscenarioPutsExtremo, EscenarioOIUniforme, EscenarioOIUniformeCallPut,
     EscenarioOIUnStrike, EscenarioSeisFilas,
     EscenarioVolumenesDistintos(101), EscenarioVolumenesDistintos(102)}

Tablas ==
    {NULL} \cup Escenarios
    \cup {DataFrame(r) : r \in UNION {[1..n -> Contratos] : n \in 0..MaxContratos}}

\* metric values around the thresholds of the alert rules
RatioMuestras == {Rat(n, d) : n \in 0..MaxNumerador, d \in {1, 5}}

Restringir(d, keys) == [k \in keys |-> d[k]]

\* dictionaries handed to VolumeAnalyzer.get_alerts
MetricasVolumen ==
    {Restringir([vol_put_call_ratio |-> r, rotacion_promedio |-> t,
                 contratos_alta_actividad |-> c], ks) :
        r \in RatioMuestras, t \in RatioMuestras, c \in 4..MaxNumerador,
        ks \in SUBSET {"vol_put_call_ratio", "rotacion_promedio",
                       "contratos_alta_actividad"}}

\* metric values at and around the thresholds of the open interest rules
MuestrasOIPutCall == {RatZero, Rat(13, 10), Rat(14, 10)}

MuestrasOIConcentracion == {RatInt(39), RatInt(40), Rat(401, 10)}

MuestrasOIItmOtm ==
    {RatZero, Rat(1, 10), Rat(3, 10), RatInt(1), Rat(15, 10), Rat(16, 10)}

\* dictionaries handed to OpenInterestAnalyzer.get_alerts
MetricasOI ==
    {Restringir([oi_put_call_ratio |-> r, oi_concentration |-> c,
                 oi_itm_otm_ratio |-> t], ks) :
        r \in MuestrasOIPutCall, c \in MuestrasOIConcentracion,
        t \in MuestrasOIItmOtm,
        ks \in SUBSET {"oi_put_call_ratio", "oi_concentration", "oi_itm_otm_ratio"}}

(***************************************************************************)
(* utils/helpers.py and reporting/report_generator.py                      *)
(***************************************************************************)
\* orden_prioridad.get(x.get('prioridad', 'BAJA'), 999)
orden_prioridad(alerta) ==
    LET p == Get(alerta, "prioridad", "BAJA")
    IN  CASE p = "ALTA"  -> 1
          [] p = "MEDIA" -> 2
          [] p = "BAJA"  -> 3
          [] OTHER       -> 999

\* x goes in front of s, then behind every element of a smaller key
RECURSIVE InsertarPorClave(_, _)
InsertarPorClave(x, s) ==
    IF s = <<>> THEN <<x>>
    ELSE IF orden_prioridad(x) <= orden_prioridad(Head(s)) THEN <<x>> \o s
         ELSE <<Head(s)>> \o InsertarPorClave(x, Tail(s))

\* as InsertarPorClave, but x goes behind the elements of its own key too
RECURSIVE InsertarTrasIguales(_, _)
InsertarTrasIguales(x, s) ==
    IF s = <<>> THEN <<x>>
    ELSE IF orden_prioridad(x) < orden_prioridad(Head(s)) THEN <<x>> \o s
         ELSE <<Head(s)>> \o InsertarTrasIguales(x, Tail(s))

\* a sort by priority that reverses the alerts of equal priority
RECURSIVE ordenar_alertas_inestable(_)
ordenar_alertas_inestable(lista) ==
    IF lista = <<>> THEN <<>>
    ELSE InsertarTrasIguales(Head(lista), ordenar_alertas_inestable(Tail(lista)))

\* sorted(alertas, key=...): Python's sort is stable
RECURSIVE sorted_por_prioridad(_)
sorted_por_prioridad(lista) ==
    IF lista = <<>> THEN <<>>
    ELSE InsertarPorClave(Head(lista), sorted_por_prioridad(Tail(lista)))

ordenar_alertas_por_prioridad(lista) == sorted_por_prioridad(lista)

\* the keys of a per-symbol result, in the order ejecutar_analisis_simbolo
\* inserts them
ANALYZERS == <<"volume_analyzer", "open_interest_analyzer", "events_analyzer">>

EnResultado(resultado) ==
    LET Esta(a) == a \in DOMAIN resultado IN SelectSeq(ANALYZERS, Esta)

RECURSIVE Concatenar(_)
Concatenar(ss) == IF ss = <<>> THEN <<>> ELSE Head(ss) \o Concatenar(Tail(ss))

\* as AlertasCompletas, the first alert of the analyzer alone
AlertasCompletas_solo_primera(s, analyzer_name, resultado) ==
    IF "alerts" \in DOMAIN resultado /\ resultado["alerts"] # <<>>
    THEN <<resultado["alerts"][1] @@ [simbolo |-> s, analizador |-> analyzer_name]>>
    ELSE <<>>

\* the alerts of one analyzer of one symbol, each with 'simbolo' and
\* 'analizador' put in front of its own keys
AlertasCompletas(s, analyzer_name, resultado) ==
    IF "alerts" \in DOMAIN resultado
    THEN [i \in 1..Len(resultado["alerts"]) |->
             resultado["alerts"][i]
             @@ [simbolo |-> s, analizador |-> analyzer_name]]
    ELSE <<>>

\* the list consolidar_alertas builds before sorting it; orden is the order of
\* the keys of analisis_resultados
alertas_sin_ordenar(analisis_resultados, orden) ==
    Concatenar([i \in 1..Len(orden) |->
        LET resultados_simbolo == analisis_resultados[orden[i]]
            nombres == EnResultado(resultados_simbolo)
        IN  Concatenar([j \in 1..Len(nombres) |->
                AlertasCompletas(orden[i], nombres[j],
                                 resultados_simbolo[nombres[j]])])])

consolidar_alertas(analisis_resultados, orden) ==
    ordenar_alertas_por_prioridad(alertas_sin_ordenar(analisis_resultados, orden))

(***************************************************************************)
(* config.py: sectors and the calendar of events.  A date of the calendar  *)
(* is its number of days after 2025-01-01.                                 *)
(***************************************************************************)
TicksPerDay == 2

SECTORES ==
    <<[sector |-> "Indices", simbolos |-> {"SPY", "QQQ", "IWM", "DIA"}],
      [sector |-> "Tecnologicas",
       simbolos |-> {"AAPL", "MSFT", "GOOGL", "AMZN", "NVDA", "TSLA"}],
      [sector |-> "Energia", simbolos |-> {"XOM", "CVX", "COP", "SLB", "EOG", "MPC"}],
      [sector |-> "Financieras", simbolos |-> {"JPM", "BAC", "WFC", "GS", "MS"}],
      [sector |-> "Salud", simbolos |-> {"JNJ", "PFE", "UNH", "MRK", "ABT"}]>>

EVENTOS_CALENDARIO ==
    <<[tipo |-> "earnings_season", fechas |-> <<14, 104, 195, 287, 384, 469>>],
      [tipo |-> "fomc_meetings",
       fechas |-> <<28, 77, 126, 168, 210, 259, 308, 350, 391, 440>>],
      [tipo |-> "quad_witching", fechas |-> <<79, 170, 261, 352, 443>>]>>

DIAS_ADELANTE_EVENTOS == 90

get_simbolo_sector(s) ==
    LET Tiene(x) == s \in x.simbolos
        con == SelectSeq(SECTORES, Tiene)
    IN  IF con = <<>> THEN "Unknown" ELSE con[1].sector

\* datetime(y, m, d) of the calendar, in ticks
Fecha(dia) == dia * TicksPerDay

\* timedelta(days=dias), in ticks
Timedelta(dias) == dias * TicksPerDay

\* the (tipo, fecha) pairs in the order the two nested loops visit them
CalendarioPlano(calendario) ==
    Concatenar([i \in 1..Len(calendario) |->
        [j \in 1..Len(calendario[i].fechas) |->
            [tipo |-> calendario[i].tipo, fecha |-> Fecha(calendario[i].fechas[j])]]])

(***************************************************************************)
(* analyzers/events_analyzer.py and helpers.detectar_eventos_proximos      *)
(***************************************************************************)
\* as EnVentana, with the lower end of the window excluded
EnVentana_sin_hoy(fecha, fecha_actual, fecha_limite) ==
    fecha_actual < fecha /\ fecha <= fecha_limite

\* fecha_actual <= fecha <= fecha_limite
EnVentana(fecha, fecha_actual, fecha_limite) ==
    fecha_actual <= fecha /\ fecha <= fecha_limite

\* (fecha - fecha_actual).days
DiasRestantes(fecha, fecha_actual) == (fecha - fecha_actual) \div TicksPerDay

\* as EventsAnalyzer_detectar_eventos_proximos, the earnings season kept only
\* for the symbols of a configured sector
EventsAnalyzer_detectar_eventos_proximos_por_sector(s, dias, fecha_actual) ==
    LET fecha_limite == fecha_actual + Timedelta(dias)
        Califica(e) ==
            /\ EnVentana(e.fecha, fecha_actual, fecha_limite)
            /\ (e.tipo = "earnings_season" => get_simbolo_sector(s) # "Unknown")
        sel == SelectSeq(CalendarioPlano(EVENTOS_CALENDARIO), Califica)
    IN  [i \in 1..Len(sel) |->
            [simbolo |-> s,
             tipo |-> sel[i].tipo,
             fecha |-> sel[i].fecha,
             dias_restantes |-> DiasRestantes(sel[i].fecha, fecha_actual),
             sector |-> get_simbolo_sector(s)]]

EventsAnalyzer_detectar_eventos_proximos(s, dias, fecha_actual) ==
    LET fecha_limite == fecha_actual + Timedelta(dias)
        Califica(e) == EnVentana(e.fecha, fecha_actual, fecha_limite)
        sel == SelectSeq(CalendarioPlano(EVENTOS_CALENDARIO), Califica)
    IN  [i \in 1..Len(sel) |->
            [simbolo |-> s,
             tipo |-> sel[i].tipo,
             fecha |-> sel[i].fecha,
             dias_restantes |-> DiasRestantes(sel[i].fecha, fecha_actual),
             sector |-> get_simbolo_sector(s)]]

\* helpers.detectar_eventos_proximos
detectar_eventos_proximos(eventos_calendario, dias, fecha_actual) ==
    LET fecha_limite == fecha_actual + Timedelta(dias)
        Califica(e) == EnVentana(e.fecha, fecha_actual, fecha_limite)
        sel == SelectSeq(CalendarioPlano(eventos_calendario), Califica)
    IN  [i \in 1..Len(sel) |->
            [tipo |-> sel[i].tipo,
             fecha |-> sel[i].fecha,
             dias_restantes |-> DiasRestantes(sel[i].fecha, fecha_actual)]]

\* as analizar_volumen_pre_evento, contracts at the money left out of the OTM sums
analizar_volumen_pre_evento_sin_atm(opciones_data, evento) ==
    IF Empty(opciones_data) THEN EmptyDict
    ELSE
    LET rows == opciones_data.rows
        CallITM(r) == r["tipo"] = "CALL" /\ RatGT(r["moneyness"], RatInt(1))
        CallOTM(r) == r["tipo"] = "CALL" /\ RatLT(r["moneyness"], RatInt(1))
        PutITM(r)  == r["tipo"] = "PUT" /\ RatLT(r["moneyness"], RatInt(1))
        PutOTM(r)  == r["tipo"] = "PUT" /\ RatLT(RatInt(1), r["moneyness"])
        total_calls == Volumen(SelectSeq(rows, EsCall))
        total_puts  == Volumen(SelectSeq(rows, EsPut))
    IN  [pcr_ratio |-> Ratio(total_puts, total_calls),
         itm_calls |-> Volumen(SelectSeq(rows, CallITM)),
         otm_calls |-> Volumen(SelectSeq(rows, CallOTM)),
         itm_puts  |-> Volumen(SelectSeq(rows, PutITM)),
         otm_puts  |-> Volumen(SelectSeq(rows, PutOTM)),
         total_volumen |-> Volumen(rows)]

analizar_volumen_pre_evento(opciones_data, evento) ==
    IF Empty(opciones_data) THEN EmptyDict
    ELSE
    LET rows == opciones_data.rows
        CallITM(r) == r["tipo"] = "CALL" /\ RatGT(r["moneyness"], RatInt(1))
        CallOTM(r) == r["tipo"] = "CALL" /\ RatLE(r["moneyness"], RatInt(1))
        PutITM(r)  == r["tipo"] = "PUT" /\ RatLT(r["moneyness"], RatInt(1))
        PutOTM(r)  == r["tipo"] = "PUT" /\ RatLE(RatInt(1), r["moneyness"])
        total_calls == Volumen(SelectSeq(rows, EsCall))
        total_puts  == Volumen(SelectSeq(rows, EsPut))
    IN  [pcr_ratio |-> Ratio(total_puts, total_calls),
         itm_calls |-> Volumen(SelectSeq(rows, CallITM)),
         otm_calls |-> Volumen(SelectSeq(rows, CallOTM)),
         itm_puts  |-> Volumen(SelectSeq(rows, PutITM)),
         otm_puts  |-> Volumen(SelectSeq(rows, PutOTM)),
         total_volumen |-> Volumen(rows)]

\* what a call returns when it raises instead
Raised(exception) == [raised |-> exception]

HaRaised(resultado) == "raised" \in DOMAIN resultado

\* Series.value_counts().to_dict()
ValueCounts(rows, col) ==
    [k \in SeqRange(Columna(rows, col)) |->
        Cardinality({i \in 1..Len(rows) : rows[i][col] = k})]

\* pd.DataFrame()
DataFrameVacio == [columns |-> {}, rows |-> <<>>]

\* the DataFrame analyze works on: the argument, or what the data manager
\* gives when _validar_datos(opciones_data, requerido=False) is False.  The
\* call passes a keyword obtener_datos_opciones does not take, the TypeError
\* is caught and an empty DataFrame stands in.
DatosDeAnalyze(opciones_data, data_manager) ==
    IF ~validar_datos(opciones_data, FALSE)
    THEN IF data_manager THEN DataFrameVacio ELSE opciones_data
    ELSE opciones_data

EventsAnalyzer_analyze(s, opciones_data, data_manager, fecha_actual) ==
    LET datos == DatosDeAnalyze(opciones_data, data_manager)
        eventos_proximos ==
            EventsAnalyzer_detectar_eventos_proximos(s, DIAS_ADELANTE_EVENTOS,
                                                     fecha_actual)
    IN  IF datos = NULL
        THEN Raised("AttributeError")  \* None has no attribute 'empty'
        ELSE
        [eventos |->
            [i \in 1..Len(eventos_proximos) |->
                eventos_proximos[i]
                @@ [volumen_analisis |->
                       analizar_volumen_pre_evento(datos, eventos_proximos[i])]],
         metricas_pre_evento |->
            [t \in {eventos_proximos[i].tipo : i \in 1..Len(eventos_proximos)} |->
                analizar_volumen_pre_evento(datos,
                    CHOOSE e \in SeqRange(eventos_proximos) : e.tipo = t)],
         concentracion_vencimientos |->
            IF ~Empty(datos) /\ "vencimiento" \in datos.columns
            THEN ValueCounts(datos.rows, "vencimiento") ELSE EmptyDict,
         cantidad_eventos |-> Len(eventos_proximos)]

\* the keys of metricas_pre_evento in insertion order
\* as TiposEnOrden, one entry per event
TiposEnOrden_por_evento(evs) == Columna(evs, "tipo")

RECURSIVE TiposEnOrden(_)
TiposEnOrden(evs) ==
    IF evs = <<>> THEN <<>>
    ELSE LET resto == TiposEnOrden(SubSeq(evs, 1, Len(evs) - 1))
             t == evs[Len(evs)].tipo
         IN  IF t \in SeqRange(resto) THEN resto ELSE Append(resto, t)

AlertaEvento(tipo, prioridad, descripcion, valor) ==
    [tipo |-> tipo, prioridad |-> prioridad, descripcion |-> descripcion,
     valor |-> valor]

\* as EsOfensivo, a ratio of 0 included
EsOfensivo_con_cero(pcr) == RatLE(RatZero, pcr) /\ RatLT(pcr, Rat(7, 10))

\* pcr > 0 and pcr < 0.7
EsOfensivo(pcr) == RatGT(pcr, RatZero) /\ RatLT(pcr, Rat(7, 10))

\* as EsInminente, an event at 7 days included
EsInminente_hasta_siete(e) == Get(e, "dias_restantes", 999) <= 7

\* e.get('dias_restantes', 999) < 7
EsInminente(e) == Get(e, "dias_restantes", 999) < 7

\* as SonMultiples, three events included
SonMultiples_desde_tres(evs) == Len(evs) >= 3

\* len(eventos) > 3
SonMultiples(evs) == Len(evs) > 3

\* the alert of one matched category of events
AlertaPreEvento(tipo_evento, metricas) ==
    LET pcr == Get(metricas, "pcr_ratio", RatZero)
    IN  IF RatGT(pcr, Rat(15, 10))
        THEN <<AlertaEvento("VOLUMEN_DEFENSIVO_PRE_EVENTO", "MEDIA", tipo_evento, pcr)
               @@ [umbral |-> Rat(15, 10)]>>
        ELSE IF EsOfensivo(pcr)
        THEN <<AlertaEvento("VOLUMEN_OFENSIVO_PRE_EVENTO", "MEDIA", tipo_evento, pcr)
               @@ [umbral |-> Rat(7, 10)]>>
        ELSE <<>>

EventsAnalyzer_get_alerts(s, analisis_resultado) ==
    IF analisis_resultado = NULL \/ DOMAIN analisis_resultado = {} THEN <<>>
    ELSE
    LET evs == Get(analisis_resultado, "eventos", <<>>)
        eventos_inminentes == SelectSeq(evs, EsInminente)
        tipos == TiposEnOrden(evs)
    IN  (IF eventos_inminentes # <<>>
         THEN <<AlertaEvento("EVENTO_INMINENTE", "ALTA",
                             Columna(eventos_inminentes, "tipo"),
                             RatInt(Len(eventos_inminentes)))>>
         ELSE <<>>)
        \o
        (IF evs # <<>> /\ "metricas_pre_evento" \in DOMAIN analisis_resultado
         THEN Concatenar([i \in 1..Len(tipos) |->
                  AlertaPreEvento(tipos[i],
                      analisis_resultado["metricas_pre_evento"][tipos[i]])])
         ELSE <<>>)
        \o
        (IF SonMultiples(evs)
         THEN <<AlertaEvento("MULTIPLES_EVENTOS", "MEDIA", Len(evs), RatInt(Len(evs)))>>
         ELSE <<>>)

(***************************************************************************)
(* data/data_manager.py: the read-through cache of obtener_datos_opciones. *)
(* descarga is what the download path of the method comes to: None (price  *)
(* not positive, no expirations, nothing collected, or an exception) or    *)
(* the concatenated DataFrame.                                             *)
(***************************************************************************)
NUM_VENCIMIENTOS == 3

\* the characters of the symbols that are fetched in this module
Caracteres(symbol) ==
    CASE symbol = "MS"   -> <<"M", "S">>
      [] symbol = "MSFT" -> <<"M", "S", "F", "T">>
      [] symbol = "ZZZ"  -> <<"Z", "Z", "Z">>
      [] OTHER           -> <<symbol>>

\* str(n) of a natural number, as the f-string formats it
RECURSIVE Decimal(_)
Decimal(n) ==
    LET Digito(d) == <<"0", "1", "2", "3", "4", "5", "6", "7", "8", "9">>[d + 1]
    IN  IF n < 10 THEN <<Digito(n)>>
        ELSE Decimal(n \div 10) \o <<Digito(n % 10)>>

\* f"{symbol}_{num_vencimientos}": a string, here the sequence of its characters
CacheKey(symbol, num_vencimientos) ==
    Caracteres(symbol) \o <<"_">> \o Decimal(num_vencimientos)

\* k.startswith(prefijo)
StartsWith(k, prefijo) ==
    Len(prefijo) <= Len(k) /\ SubSeq(k, 1, Len(prefijo)) = prefijo

obtener_datos_opciones(cache, symbol, num_vencimientos, descarga) ==
    IF CacheKey(symbol, num_vencimientos) \in DOMAIN cache
    THEN cache[CacheKey(symbol, num_vencimientos)]
    ELSE descarga

\* opciones_cache once obtener_datos_opciones has returned
opciones_cache_tras(cache, symbol, num_vencimientos, descarga) ==
    IF CacheKey(symbol, num_vencimientos) \in DOMAIN cache \/ descarga = NULL
    THEN cache
    ELSE (CacheKey(symbol, num_vencimientos) :> descarga) @@ cache

(***************************************************************************)
(* data/data_manager.py: the download path of obtener_datos_opciones.      *)
(* What yfinance answers to one call is a record upstream:                 *)
(*   ticker_falla  yf.Ticker(symbol) raises                                *)
(*   info          the dict ticker.info, or Raised                         *)
(*   options       [fechas |-> ticker.options], or Raised                  *)
(*   cadenas       per expiration date [calls |-> rows, puts |-> rows] of  *)
(*                 ticker.option_chain, or Raised                          *)
(* A price is a record [valor |-> p]; NULL is the price None.              *)
(***************************************************************************)
TTL_PRECIO == 300

TTL_VENCIMIENTOS == 600

Num(x) == [valor |-> x]

\* as Vigente, an entry whose age equals the limit still used
Vigente_hasta_el_limite(cache, symbol, ahora, ttl) ==
    symbol \in DOMAIN cache /\ ahora - cache[symbol].timestamp <= ttl

\* a cache entry of precios_cache or vencimientos_cache that is still fresh
Vigente(cache, symbol, ahora, ttl) ==
    symbol \in DOMAIN cache /\ ahora - cache[symbol].timestamp < ttl

\* info.get('currentPrice', info.get('regularMarketPrice', 0))
PrecioDeInfo(info) == Get(info, "currentPrice", Get(info, "regularMarketPrice", Num(0)))

\* the value _obtener_precio_cached returns
obtener_precio_cached(cache, symbol, upstream, ahora) ==
    IF Vigente(cache, symbol, ahora, TTL_PRECIO) THEN cache[symbol].precio
    ELSE IF HaRaised(upstream.info) THEN Num(0)
    ELSE PrecioDeInfo(upstream.info)

\* precios_cache once _obtener_precio_cached has returned
precios_cache_tras(cache, symbol, upstream, ahora) ==
    IF Vigente(cache, symbol, ahora, TTL_PRECIO) \/ HaRaised(upstream.info) THEN cache
    ELSE (symbol :> [precio |-> PrecioDeInfo(upstream.info), timestamp |-> ahora])
         @@ cache

\* the value _obtener_vencimientos_cached returns
obtener_vencimientos_cached(cache, symbol, upstream, ahora) ==
    IF Vigente(cache, symbol, ahora, TTL_VENCIMIENTOS) THEN cache[symbol].exp_dates
    ELSE IF HaRaised(upstream.options) THEN <<>>
    ELSE upstream.options.fechas

\* vencimientos_cache once _obtener_vencimientos_cached has returned
vencimientos_cache_tras(cache, symbol, upstream, ahora) ==
    IF \/ Vigente(cache, symbol, ahora, TTL_VENCIMIENTOS)
       \/ HaRaised(upstream.options)
       \/ upstream.options.fechas = <<>>
    THEN cache
    ELSE (symbol :> [exp_dates |-> upstream.options.fechas, timestamp |-> ahora])
         @@ cache

\* precio_actual <= 0 raises TypeError on None; the except clause returns None
PrecioInvalido(precio) == precio = NULL \/ precio.valor <= 0

\* the rows of one option chain: calls, then puts, with the columns added
ProcesarCadena(cadena, exp_date, precio_actual, include_moneyness) ==
    LET Fila(tipo, r) ==
            LET c == Contrato(tipo, r.strike, r.volume, r.openInterest, exp_date,
                              precio_actual)
            IN  IF include_moneyness THEN c
                ELSE Restringir(c, COLUMNAS \ {"moneyness", "itm_otm"})
    IN  [i \in 1..Len(cadena.calls) |-> Fila("CALL", cadena.calls[i])]
        \o [i \in 1..Len(cadena.puts) |-> Fila("PUT", cadena.puts[i])]

\* what the try block of obtener_datos_opciones comes to on a cache miss: the
\* concatenated DataFrame, or NULL where it returns None
Descargar(symbol, num_vencimientos, include_moneyness, upstream, precios, vencimientos, ahora) ==
    IF upstream.ticker_falla THEN NULL
    ELSE
    LET precio_actual == obtener_precio_cached(precios, symbol, upstream, ahora)
        exp_dates == obtener_vencimientos_cached(vencimientos, symbol, upstream, ahora)
        fechas_a_analizar == SubSeq(exp_dates, 1, Min(num_vencimientos, Len(exp_dates)))
    IN  IF PrecioInvalido(precio_actual) THEN NULL
        ELSE IF exp_dates = <<>> THEN NULL
        ELSE IF \E i \in 1..Len(fechas_a_analizar) :
                    HaRaised(upstream.cadenas[fechas_a_analizar[i]])
        THEN NULL
        ELSE IF fechas_a_analizar = <<>> THEN NULL
        ELSE [columns |-> IF include_moneyness THEN COLUMNAS
                          ELSE COLUMNAS \ {"moneyness", "itm_otm"},
              rows |-> Concatenar([i \in 1..Len(fechas_a_analizar) |->
                          ProcesarCadena(upstream.cadenas[fechas_a_analizar[i]],
                                         fechas_a_analizar[i], precio_actual.valor,
                                         include_moneyness)])]

\* precios_cache once obtener_datos_opciones has returned from a cache miss
precios_cache_descarga(precios, symbol, upstream, ahora) ==
    IF upstream.ticker_falla THEN precios
    ELSE precios_cache_tras(precios, symbol, upstream, ahora)

\* vencimientos_cache once obtener_datos_opciones has returned from a cache miss
vencimientos_cache_descarga(precios, vencimientos, symbol, upstream, ahora) ==
    IF \/ upstream.ticker_falla
       \/ PrecioInvalido(obtener_precio_cached(precios, symbol, upstream, ahora))
    THEN vencimientos
    ELSE vencimientos_cache_tras(vencimientos, symbol, upstream, ahora)

\* a cache miss reads ticker.info: it got to _obtener_precio_cached and the
\* cached price is missing or too old
ConsultaInfo(precios, symbol, upstream, ahora) ==
    ~upstream.ticker_falla /\ ~Vigente(precios, symbol, ahora, TTL_PRECIO)

\* a cache miss gets to _obtener_vencimientos_cached: the price was valid
PideVencimientos(precios, symbol, upstream, ahora) ==
    /\ ~upstream.ticker_falla
    /\ ~PrecioInvalido(obtener_precio_cached(precios, symbol, upstream, ahora))

\* a cache miss reads ticker.options
ConsultaOptions(precios, vencimientos, symbol, upstream, ahora) ==
    /\ PideVencimientos(precios, symbol, upstream, ahora)
    /\ ~Vigente(vencimientos, symbol, ahora, TTL_VENCIMIENTOS)

\* the cache is consulted: usar_cache and the key is stored
EnCache(cache, symbol, num_vencimientos, usar_cache) ==
    usar_cache /\ CacheKey(symbol, num_vencimientos) \in DOMAIN cache

\* as opciones_cache_descarga, storing whatever the download came to
opciones_cache_descarga_siempre(cache, symbol, num_vencimientos, descarga) ==
    (CacheKey(symbol, num_vencimientos) :> descarga) @@ cache

\* opciones_cache once a call that consulted upstream has returned descarga
opciones_cache_descarga(cache, symbol, num_vencimientos, descarga) ==
    IF descarga = NULL THEN cache
    ELSE (CacheKey(symbol, num_vencimientos) :> descarga) @@ cache

\* as limpiar_opciones_cache, only the keys of the symbol itself removed
limpiar_opciones_cache_exacto(cache, symbol) ==
    IF symbol = "" THEN EmptyDict
    ELSE Restringir(cache,
             {k \in DOMAIN cache :
                 ~\E n \in 0..Len(k) :
                     k = Caracteres(symbol) \o <<"_">> \o SubSeq(k, Len(k) - n + 1, Len(k))})

\* opciones_cache after limpiar_cache(symbol); symbol is "" where the
\* argument is None or empty (if symbol: is false for both)
limpiar_opciones_cache(cache, symbol) ==
    IF symbol = "" THEN EmptyDict
    ELSE Restringir(cache,
             {k \in DOMAIN cache : ~StartsWith(k, Caracteres(symbol))})

\* precios_cache or vencimientos_cache after limpiar_cache(symbol)
limpiar_por_simbolo(cache, symbol) ==
    IF symbol = "" THEN EmptyDict
    ELSE Restringir(cache, DOMAIN cache \ {symbol})

\* resultado.copy() is stored and resultado returned (line 109), so no cache
\* entry is the object the caller receives; the mutant stores resultado itself
compartidas_tras_guardar_sin_copia(cache_key) == {cache_key}

compartidas_tras_guardar(cache_key) == {}

\* a cache hit returns self.opciones_cache[cache_key].copy()
compartidas_tras_acierto(cache_key) == {}

\* opciones_cache after the caller changed the table it was returned into
\* mutada: the entries that are that same object change with it
opciones_cache_tras_mutar(cache, mismas, mutada) ==
    [k \in DOMAIN cache |-> IF k \in mismas THEN mutada ELSE cache[k]]

(***************************************************************************)
(* main.py: AnalisisInstPosiciones                                         *)
(***************************************************************************)
\* where an exception is raised inside the try block of
\* ejecutar_analisis_simbolo, if anywhere
Fallas == {"ninguna", "volume_analyzer", "open_interest_analyzer", "events_analyzer"}

\* resultados as ejecutar_analisis_simbolo returns it: the sections stored
\* before the return or before the exception the except clause swallows
ejecutar_analisis_simbolo(s, opciones_data, falla, ahora) ==
    IF opciones_data = NULL \/ Empty(opciones_data) THEN EmptyDict
    ELSE
    LET vol_r == VolumeAnalyzer_analyze(opciones_data)
        datos == VolumeAnalyzer_analyze_df(opciones_data)
        oi_r  == OpenInterestAnalyzer_analyze(datos)
        ev_r  == EventsAnalyzer_analyze(s, datos, TRUE, ahora)
        vol_seccion ==
            [volume_analyzer |->
                [metrics |-> vol_r, alerts |-> VolumeAnalyzer_get_alerts(vol_r)]]
        oi_seccion ==
            [open_interest_analyzer |->
                [metrics |-> oi_r, alerts |-> OpenInterestAnalyzer_get_alerts(oi_r)]]
        ev_seccion ==
            [events_analyzer |->
                [metrics |-> ev_r,
                 alerts |-> EventsAnalyzer_get_alerts(s, ev_r),
                 eventos |-> Get(ev_r, "eventos", <<>>)]]
    IN  IF falla = "volume_analyzer" THEN EmptyDict
        ELSE IF falla = "open_interest_analyzer" THEN vol_seccion
        ELSE IF falla = "events_analyzer" \/ HaRaised(ev_r)
        THEN vol_seccion @@ oi_seccion
        ELSE vol_seccion @@ oi_seccion @@ ev_seccion

\* as orden_tras, every stored result kept as an entry of its own
orden_tras_sin_clave(todos, orden, s) == Append(orden, s)

\* the key order of the dict todos_resultados after todos_resultados[s] = ...:
\* a key already present keeps its place
orden_tras(todos, orden, s) ==
    IF s \in DOMAIN todos THEN orden ELSE Append(orden, s)

\* the events one loop iteration of ejecutar_analisis_completo accumulates
EventosDeResultado(resultado) ==
    IF "events_analyzer" \in DOMAIN resultado
    THEN Get(resultado["events_analyzer"], "eventos", <<>>)
    ELSE <<>>

(***************************************************************************)
(* Variable groups and their values while an entry point is not in use.    *)
(***************************************************************************)
varsOrden == <<alertas, ordenadas>>

varsAnalyzers == <<options_data, vol_result, vol_alerts, oi_result, oi_alerts>>

varsEventos == <<now, dias_adelante, simbolo, eventos, events_result, events_alerts,
                 con_data_manager>>

varsBatch == <<simbolos, idx, todos_resultados, orden_resultados,
               eventos_detectados_global, alertas_consolidadas, historia,
               opciones_cache>>

OrdenEnReposo == alertas = <<>> /\ ordenadas = <<>>

AnalyzersEnReposo ==
    /\ options_data = NULL
    /\ vol_result = EmptyDict /\ vol_alerts = <<>>
    /\ oi_result = EmptyDict /\ oi_alerts = <<>>

EventosEnReposo ==
    /\ now = 0 /\ dias_adelante = 0 /\ simbolo = ""
    /\ eventos = <<>> /\ events_result = EmptyDict /\ events_alerts = <<>>
    /\ con_data_manager = FALSE

varsDatos == <<precios_cache, vencimientos_cache, reloj, llamadas, retorno,
               compartidas, poblado>>

DatosEnReposo ==
    /\ precios_cache = EmptyDict /\ vencimientos_cache = EmptyDict
    /\ reloj = 0 /\ llamadas = 0 /\ retorno = NULL
    /\ compartidas = {} /\ poblado = EmptyDict

BatchEnReposo ==
    /\ simbolos = <<>> /\ idx = 1
    /\ todos_resultados = EmptyDict /\ orden_resultados = <<>>
    /\ eventos_detectados_global = <<>> /\ alertas_consolidadas = <<>>
    /\ historia = <<>> /\ opciones_cache = EmptyDict

(***************************************************************************)
(* The volume and open interest analyzers called on a DataFrame, and       *)
(* VolumeAnalyzer.get_alerts called on a metrics dictionary.               *)
(***************************************************************************)
InitAnalyzers ==
    /\ OrdenEnReposo /\ EventosEnReposo /\ BatchEnReposo /\ DatosEnReposo
    /\ vol_alerts = <<>> /\ oi_alerts = <<>>
    /\ \/ /\ mode = "analyze"
          /\ pc = "start"
          /\ options_data \in Tablas
          /\ vol_result = EmptyDict
          /\ oi_result = EmptyDict
       \/ /\ mode = "get_alerts"
          /\ pc = "vol_analyzed"
          /\ options_data = NULL
          /\ vol_result \in MetricasVolumen
          /\ oi_result = EmptyDict
       \/ /\ mode = "oi_get_alerts"
          /\ pc = "oi_analyzed"
          /\ options_data = NULL
          /\ vol_result = EmptyDict
          /\ oi_result \in MetricasOI

VolumeAnalyze ==
    /\ mode = "analyze" /\ pc = "start"
    /\ vol_result' = VolumeAnalyzer_analyze(options_data)
    /\ options_data' = VolumeAnalyzer_analyze_df(options_data)
    /\ pc' = "vol_analyzed"
    /\ UNCHANGED <<mode, vol_alerts, oi_result, oi_alerts,
                   varsOrden, varsEventos, varsBatch, varsDatos>>

VolumeGetAlerts ==
    /\ mode \in {"analyze", "get_alerts"} /\ pc = "vol_analyzed"
    /\ vol_alerts' = VolumeAnalyzer_get_alerts(vol_result)
    /\ pc' = "vol_alerts"
    /\ UNCHANGED <<mode, options_data, vol_result, oi_result, oi_alerts,
                   varsOrden, varsEventos, varsBatch, varsDatos>>

OpenInterestAnalyze ==
    /\ mode = "analyze" /\ pc = "vol_alerts"
    /\ oi_result' \in OpenInterestAnalyzer_analyze_resultados(options_data)
    /\ pc' = "oi_analyzed"
    /\ UNCHANGED <<mode, options_data, vol_result, vol_alerts, oi_alerts,
                   varsOrden, varsEventos, varsBatch, varsDatos>>

OpenInterestGetAlerts ==
    /\ mode \in {"analyze", "oi_get_alerts"} /\ pc = "oi_analyzed"
    /\ oi_alerts' = OpenInterestAnalyzer_get_alerts(oi_result)
    /\ pc' = "oi_alerts"
    /\ UNCHANGED <<mode, options_data, vol_result, vol_alerts, oi_result,
                   varsOrden, varsEventos, varsBatch, varsDatos>>

\* the events analyzer on the DataFrame the two other analyzers were given
EventsAnalyzeTrasOI ==
    /\ mode = "analyze" /\ pc = "oi_alerts"
    /\ LET r == EventsAnalyzer_analyze(simbolo, options_data, con_data_manager, now)
       IN  IF HaRaised(r)
           THEN pc' = "events_error" /\ UNCHANGED events_result
           ELSE pc' = "events_analyzed" /\ events_result' = r
    /\ UNCHANGED <<mode, now, dias_adelante, simbolo, eventos, events_alerts,
                   con_data_manager, varsOrden, varsAnalyzers, varsBatch, varsDatos>>

EventsGetAlertsTrasOI ==
    /\ mode = "analyze" /\ pc = "events_analyzed"
    /\ events_alerts' = EventsAnalyzer_get_alerts(simbolo, events_result)
    /\ pc' = "events_alerts"
    /\ UNCHANGED <<mode, now, dias_adelante, simbolo, eventos, events_result,
                   con_data_manager, varsOrden, varsAnalyzers, varsBatch, varsDatos>>

NextAnalyzers ==
    \/ VolumeAnalyze
    \/ VolumeGetAlerts
    \/ OpenInterestAnalyze
    \/ OpenInterestGetAlerts
    \/ EventsAnalyzeTrasOI
    \/ EventsGetAlertsTrasOI

SpecAnalyzers == InitAnalyzers /\ [][NextAnalyzers]_vars

(***************************************************************************)
(* Properties of the analyzers.                                            *)
(***************************************************************************)
\* the sum of f over the members of S between a and b
RECURSIVE SumaEntre(_, _, _, _)
SumaEntre(S, f, a, b) ==
    IF a > b THEN 0
    ELSE IF a = b THEN (IF a \in S THEN f[a] ELSE 0)
    ELSE SumaEntre(S, f, a, (a + b) \div 2)
           + SumaEntre(S, f, ((a + b) \div 2) + 1, b)

\* the sum of f over S, a set of indices of the sequence f
SumaConj(S, f) == SumaEntre(S, f, 1, Len(f))

RECURSIVE RatSumaEntre(_, _, _, _)
RatSumaEntre(S, f, a, b) ==
    IF a > b THEN RatZero
    ELSE IF a = b THEN (IF a \in S THEN f[a] ELSE RatZero)
    ELSE RatAdd(RatSumaEntre(S, f, a, (a + b) \div 2),
                RatSumaEntre(S, f, ((a + b) \div 2) + 1, b))

RatSumaConj(S, f) == RatSumaEntre(S, f, 1, Len(f))

RECURSIVE Mcm(_)
Mcm(S) ==
    IF S = {} THEN 1
    ELSE LET x == CHOOSE y \in S : TRUE
             m == Mcm(S \ {x})
         IN  (x * m) \div Gcd(x, m)

\* the table without the columns VolumeAnalyzer.analyze adds to it
Base(df) ==
    IF df = NULL THEN NULL
    ELSE DataFrame([i \in 1..Len(df.rows) |-> Restringir(df.rows[i], COLUMNAS)])

ConDatos == mode = "analyze" /\ options_data # NULL /\ ~Empty(options_data)

SinDatos == mode = "analyze" /\ (options_data = NULL \/ Empty(options_data))

EventosAnalizado == pc \in {"events_analyzed", "events_alerts"}

TrasOI == pc \in {"events_error", "events_analyzed", "events_alerts"}

VolumenAnalizado ==
    pc \in {"vol_analyzed", "vol_alerts", "oi_analyzed", "oi_alerts"} \/ TrasOI

VolumenAlertado == pc \in {"vol_alerts", "oi_analyzed", "oi_alerts"} \/ TrasOI

OIAnalizado == pc \in {"oi_analyzed", "oi_alerts"} \/ TrasOI

Indices == 1..Len(options_data.rows)

DeTipo(t) == {i \in Indices : options_data.rows[i]["tipo"] = t}

DeClase(c) == {i \in Indices : options_data.rows[i]["itm_otm"] = c}

VolDe(S) == SumaConj(S, [i \in Indices |-> options_data.rows[i]["volume"]])

OIDe(S) == SumaConj(S, [i \in Indices |-> options_data.rows[i]["openInterest"]])

\* volume times 1 / (|strike / price - 1| + 0.01), summed over the rows of S
PondDe(S) ==
    RatSumaConj(S, [i \in Indices |->
        LET k == options_data.rows[i]["strike"]
            p == options_data.rows[i]["precio_subyacente"]
        IN  Rat(options_data.rows[i]["volume"] * 100 * p, 100 * Abs(k - p) + p)])

Cuenta(alerts, t) == Cardinality({i \in 1..Len(alerts) : alerts[i].tipo = t})

TiposDe(alerts) == {alerts[i].tipo : i \in 1..Len(alerts)}

\* C2: VolumeAnalyzer.get_alerts returns exactly the alerts of the volume rules
\* whose condition holds, each at most once: VOLUMEN_PUTS_EXTREMO at ALTA iff
\* vol_put_call_ratio > 1.2, ALTA_ROTACION at MEDIA iff rotacion_promedio > 0.8,
\* CONCENTRACION_VOLUMEN at MEDIA iff contratos_alta_actividad > 5; 10 CALLs of
\* volume 100 and 10 PUTs of volume 200 give ratio 2 and the ALTA alert.
C2_AlertasDeVolumenExactas ==
    VolumenAlertado =>
        LET pcr == Get(vol_result, "vol_put_call_ratio", RatZero)
            rot == Get(vol_result, "rotacion_promedio", RatZero)
            n   == Get(vol_result, "contratos_alta_actividad", 0)
            Regla(t, prioridad, cond, valor) ==
                /\ Cuenta(vol_alerts, t) = IF cond THEN 1 ELSE 0
                /\ \A i \in 1..Len(vol_alerts) :
                      vol_alerts[i].tipo = t =>
                          vol_alerts[i].prioridad = prioridad
                          /\ vol_alerts[i].valor = valor
        IN  /\ Regla("VOLUMEN_PUTS_EXTREMO", "ALTA", 5 * pcr.num > 6 * pcr.den, pcr)
            /\ Regla("ALTA_ROTACION", "MEDIA", 5 * rot.num > 4 * rot.den, rot)
            /\ Regla("CONCENTRACION_VOLUMEN", "MEDIA", n > 5, RatInt(n))
            /\ TiposDe(vol_alerts) \subseteq
                   {"VOLUMEN_PUTS_EXTREMO", "ALTA_ROTACION", "CONCENTRACION_VOLUMEN"}
            /\ Base(options_data) = EscenarioPutsExtremo =>
                   /\ vol_result["vol_put_call_ratio"] = RatInt(2)
                   /\ vol_alerts[1] = Alerta("VOLUMEN_PUTS_EXTREMO", "ALTA", RatInt(2))

\* the scenario of C2 analyzed and alerted
C2_Witness ==
    /\ VolumenAlertado
    /\ Base(options_data) = EscenarioPutsExtremo
    /\ Cuenta(vol_alerts, "VOLUMEN_PUTS_EXTREMO") = 1

\* the 5 largest totals of open interest per strike, summed
RECURSIVE TopSuma(_, _, _)
TopSuma(S, f, n) ==
    IF S = {} \/ n = 0 THEN 0
    ELSE LET x == CHOOSE y \in S : \A z \in S : f[z] <= f[y]
         IN  f[x] + TopSuma(S \ {x}, f, n - 1)

OIPorStrike ==
    [k \in {options_data.rows[i]["strike"] : i \in Indices} |->
        OIDe({i \in Indices : options_data.rows[i]["strike"] = k})]

\* C4: oi_concentration is 100 x (open interest of the 5 strikes with the
\* highest open interest, summed per strike over CALL, PUT and expirations)
\* / total open interest, and 0 when the total is 0; open interest spread
\* evenly over 20 strikes gives 25, also with a CALL and a PUT row per strike.
C4_ConcentracionPorStrike ==
    (ConDatos /\ OIAnalizado) =>
        LET total == OIDe(Indices)
            top   == TopSuma(DOMAIN OIPorStrike, OIPorStrike, 5)
        IN  /\ oi_result["oi_concentration"] =
                   (IF total > 0 THEN Rat(100 * top, total) ELSE RatZero)
            /\ Base(options_data) \in {EscenarioOIUniforme, EscenarioOIUniformeCallPut}
                   => oi_result["oi_concentration"] = RatInt(25)

EsCociente(r, num, den) ==
    IF den > 0 THEN r.den > 0 /\ r.num * den = num * r.den ELSE r = RatZero

EsCocienteRat(r, a, b) ==
    IF b.num > 0
    THEN r.den > 0 /\ r.num * b.num * a.den = a.num * b.den * r.den
    ELSE r = RatZero

\* C5: for a non-empty snapshot each ratio metric is numerator / denominator
\* when the denominator is positive and exactly 0 when it is 0; vol_calls = 0
\* with vol_puts > 0 gives vol_put_call_ratio = 0.
C5_RatiosConPisoCero ==
    ConDatos =>
        /\ VolumenAnalizado =>
              /\ EsCociente(vol_result["vol_put_call_ratio"],
                            VolDe(DeTipo("PUT")), VolDe(DeTipo("CALL")))
              /\ EsCociente(vol_result["itm_otm_ratio"],
                            VolDe(DeClase("ITM")), VolDe(DeClase("OTM")))
              /\ EsCocienteRat(vol_result["vol_put_call_ponderado"],
                               PondDe(DeTipo("PUT")), PondDe(DeTipo("CALL")))
        /\ OIAnalizado =>
              /\ EsCociente(oi_result["oi_put_call_ratio"],
                            OIDe(DeTipo("PUT")), OIDe(DeTipo("CALL")))
              /\ EsCociente(oi_result["oi_itm_otm_ratio"],
                            OIDe(DeClase("ITM")), OIDe(DeClase("OTM")))

\* a snapshot with puts traded and no calls traded, analyzed by both analyzers
C5_Witness ==
    /\ ConDatos /\ OIAnalizado
    /\ VolDe(DeTipo("CALL")) = 0 /\ VolDe(DeTipo("PUT")) > 0
    /\ vol_result["vol_put_call_ratio"] = RatZero
    /\ OIDe(DeTipo("CALL")) > 0 /\ OIDe(DeTipo("PUT")) > 0

\* C6: on a null snapshot or one of zero contracts both analyze return the
\* empty result, and get_alerts on that result returns no alerts.
C6_SinDatosSinResultado ==
    SinDatos =>
        /\ VolumenAnalizado => DOMAIN vol_result = {}
        /\ VolumenAlertado => vol_alerts = <<>>
        /\ OIAnalizado => DOMAIN oi_result = {}
        /\ pc = "oi_alerts" => oi_alerts = <<>>

\* a DataFrame of zero rows through both analyzers and both get_alerts
C6_Witness ==
    /\ mode = "analyze" /\ pc = "oi_alerts"
    /\ options_data # NULL /\ Empty(options_data)
    /\ DOMAIN vol_result = {} /\ DOMAIN oi_result = {}

\* C8: rotacion_promedio is the mean over the contracts of volume/openInterest
\* (0 where openInterest is 0), alta_rotacion_count the number of contracts of
\* rotation > 1; with every openInterest 0 both are 0.
C8_RotacionEsMediaDeCocientes ==
    (ConDatos /\ VolumenAnalizado) =>
        LET rows == options_data.rows
            ConOI == {i \in Indices : rows[i]["openInterest"] > 0}
            m    == Mcm({rows[i]["openInterest"] : i \in ConOI})
            suma == SumaConj(ConOI, [i \in Indices |->
                        IF i \in ConOI
                        THEN rows[i]["volume"] * (m \div rows[i]["openInterest"])
                        ELSE 0])
            r    == vol_result["rotacion_promedio"]
        IN  /\ r.den > 0
            /\ r.num * m * Len(rows) = suma * r.den
            /\ vol_result["alta_rotacion_count"] =
                   Cardinality({i \in ConOI : rows[i]["volume"] > rows[i]["openInterest"]})
            /\ ConOI = {} =>
                   r = RatZero /\ vol_result["alta_rotacion_count"] = 0

\* two contracts whose mean rotation differs from total volume / total open
\* interest, one of them with more volume than open interest
C8_Witness ==
    /\ ConDatos /\ VolumenAnalizado
    /\ Len(options_data.rows) = 2
    /\ OIDe(Indices) > 0
    /\ vol_result["rotacion_promedio"] # Rat(VolDe(Indices), OIDe(Indices))
    /\ vol_result["alta_rotacion_count"] = 1

(***************************************************************************)
(* ordenar_alertas_por_prioridad called on a list of alerts, and           *)
(* consolidar_alertas called on per-symbol results that hold the same      *)
(* alerts, split over two symbols and their analyzers.                     *)
(***************************************************************************)
MaxAlertas == 3

AlertaMuestras ==
    {[tipo |-> t, prioridad |-> p] :
        t \in {"X", "Y"}, p \in {"ALTA", "MEDIA", "BAJA", "URGENTE"}}
    \cup {[tipo |-> t] : t \in {"X", "Y"}}

Seccion(lista) == [metrics |-> EmptyDict, alerts |-> lista]

\* lista[1..i] and lista[i+1..j] to two analyzers of MS, the rest to ZZZ
Repartir(lista, i, j) ==
    [s \in {"MS", "ZZZ"} |->
        IF s = "MS"
        THEN [volume_analyzer |-> Seccion(SubSeq(lista, 1, i)),
              events_analyzer |-> Seccion(SubSeq(lista, i + 1, j))]
        ELSE [volume_analyzer |-> [metrics |-> EmptyDict],
              open_interest_analyzer |-> Seccion(SubSeq(lista, j + 1, Len(lista)))]]

InitConsolidar ==
    /\ AnalyzersEnReposo /\ EventosEnReposo /\ DatosEnReposo
    /\ mode = "consolidar" /\ pc = "start"
    /\ alertas \in UNION {[1..n -> AlertaMuestras] : n \in 0..MaxAlertas}
    /\ ordenadas = <<>>
    /\ simbolos = <<>> /\ idx = 1 /\ eventos_detectados_global = <<>>
    /\ historia = <<>> /\ alertas_consolidadas = <<>>
    /\ opciones_cache = EmptyDict
    /\ orden_resultados = <<"MS", "ZZZ">>
    /\ \E j \in 0..Len(alertas) : \E i \in 0..j :
          todos_resultados = Repartir(alertas, i, j)

LlamarOrdenar ==
    /\ mode = "consolidar" /\ pc = "start"
    /\ ordenadas' = ordenar_alertas_por_prioridad(alertas)
    /\ pc' = "ordenado"
    /\ UNCHANGED <<mode, alertas, varsAnalyzers, varsEventos, varsBatch, varsDatos>>

LlamarConsolidar ==
    /\ mode = "consolidar" /\ pc = "ordenado"
    /\ alertas_consolidadas' = consolidar_alertas(todos_resultados, orden_resultados)
    /\ pc' = "consolidado"
    /\ UNCHANGED <<mode, varsOrden, varsAnalyzers, varsEventos, simbolos, idx,
                   todos_resultados, orden_resultados, eventos_detectados_global,
                   historia, opciones_cache, varsDatos>>

NextConsolidar == LlamarOrdenar \/ LlamarConsolidar

SpecConsolidar == InitConsolidar /\ [][NextConsolidar]_vars

Rango(alerta) ==
    IF "prioridad" \notin DOMAIN alerta THEN 3
    ELSE IF alerta["prioridad"] = "ALTA" THEN 1
    ELSE IF alerta["prioridad"] = "MEDIA" THEN 2
    ELSE IF alerta["prioridad"] = "BAJA" THEN 3
    ELSE 999

DeRango(lista, k) == LET Es(a) == Rango(a) = k IN SelectSeq(lista, Es)

EsOrdenEstable(entrada, salida) ==
    /\ Len(salida) = Len(entrada)
    /\ \A k \in {1, 2, 3, 999} : DeRango(salida, k) = DeRango(entrada, k)
    /\ \A i, j \in 1..Len(salida) : i < j => Rango(salida[i]) <= Rango(salida[j])

SinEtiquetas(lista) ==
    [i \in 1..Len(lista) |->
        Restringir(lista[i], DOMAIN lista[i] \ {"simbolo", "analizador"})]

\* C1: the consolidated alert list is a stable sort of the alerts by priority
\* rank ALTA = 1, MEDIA = 2, BAJA = 3: no MEDIA alert precedes an ALTA alert and
\* alerts of equal priority keep their relative input order.
C1_OrdenEstablePorPrioridad ==
    /\ pc \in {"ordenado", "consolidado"} /\ mode = "consolidar"
           => EsOrdenEstable(alertas, ordenadas)
    /\ pc = "consolidado" /\ mode = "consolidar" =>
           /\ EsOrdenEstable(alertas, SinEtiquetas(alertas_consolidadas))
           /\ \A i, j \in 1..Len(alertas_consolidadas) :
                 (Get(alertas_consolidadas[i], "prioridad", "") = "MEDIA"
                  /\ Get(alertas_consolidadas[j], "prioridad", "") = "ALTA") => j < i

\* a MEDIA alert ahead of two different ALTA alerts in the input, consolidated
C1_Witness ==
    /\ mode = "consolidar" /\ pc = "consolidado"
    /\ Len(alertas) = 3
    /\ Rango(alertas[1]) = 2 /\ Rango(alertas[2]) = 1 /\ Rango(alertas[3]) = 1
    /\ alertas[2] # alertas[3]
    /\ SinEtiquetas(alertas_consolidadas) = <<alertas[2], alertas[3], alertas[1]>>
    /\ alertas_consolidadas[1]["simbolo"] # alertas_consolidadas[3]["simbolo"]

(***************************************************************************)
(* The events analyzer: detectar_eventos_proximos (the method and the      *)
(* helper) called at a time now with a lookahead, and analyze followed by  *)
(* get_alerts called at a time now on a DataFrame.  now counts half days   *)
(* from 2025-01-01 00:00.                                                  *)
(***************************************************************************)
MaxDia == 470

DiasAdelanteMuestras == {0, 1, DIAS_ADELANTE_EVENTOS}

SimbolosMuestra == {"MS", "ZZZ"}

VolumenesCall == {0, 4, 10}

VolumenesPut == {0, 5, 6, 7, 12, 15}

TablasEventos ==
    {DataFrame(<<>>)}
    \cup {DataFrame(<<Contrato("CALL", 3, c, 1, 1, PrecioMuestra),
                      Contrato("PUT", 1, p, 1, 1, PrecioMuestra)>>) :
             c \in VolumenesCall, p \in VolumenesPut}

InitEventos ==
    /\ OrdenEnReposo /\ BatchEnReposo /\ DatosEnReposo
    /\ vol_result = EmptyDict /\ vol_alerts = <<>>
    /\ oi_result = EmptyDict /\ oi_alerts = <<>>
    /\ eventos = <<>> /\ events_result = EmptyDict /\ events_alerts = <<>>
    /\ pc = "start"
    /\ now \in 0..(MaxDia * TicksPerDay)
    /\ simbolo \in SimbolosMuestra
    /\ \/ /\ mode = "detectar"
          /\ dias_adelante \in DiasAdelanteMuestras
          /\ options_data = NULL
          /\ con_data_manager = FALSE
       \/ /\ mode = "events"
          /\ dias_adelante = DIAS_ADELANTE_EVENTOS
          /\ \/ options_data \in TablasEventos /\ con_data_manager = TRUE
             \/ options_data \in {NULL, DataFrame(<<>>)} /\ con_data_manager = FALSE
             \/ options_data = NULL /\ con_data_manager = TRUE

DetectarEventos ==
    /\ mode = "detectar" /\ pc = "start"
    /\ eventos' = EventsAnalyzer_detectar_eventos_proximos(simbolo, dias_adelante, now)
    /\ pc' = "detectado"
    /\ UNCHANGED <<mode, now, dias_adelante, simbolo, events_result, events_alerts,
                   con_data_manager, varsOrden, varsAnalyzers, varsBatch, varsDatos>>

DetectarEventosHelper ==
    /\ mode = "detectar" /\ pc = "start"
    /\ eventos' = detectar_eventos_proximos(EVENTOS_CALENDARIO, dias_adelante, now)
    /\ pc' = "detectado_helper"
    /\ UNCHANGED <<mode, now, dias_adelante, simbolo, events_result, events_alerts,
                   con_data_manager, varsOrden, varsAnalyzers, varsBatch, varsDatos>>

EventsAnalyze ==
    /\ mode = "events" /\ pc = "start"
    /\ LET r == EventsAnalyzer_analyze(simbolo, options_data, con_data_manager, now)
       IN  IF HaRaised(r)
           THEN pc' = "error" /\ UNCHANGED events_result
           ELSE pc' = "analizado" /\ events_result' = r
    /\ UNCHANGED <<mode, now, dias_adelante, simbolo, eventos, events_alerts,
                   con_data_manager, varsOrden, varsAnalyzers, varsBatch, varsDatos>>

EventsGetAlerts ==
    /\ mode = "events" /\ pc = "analizado"
    /\ events_alerts' = EventsAnalyzer_get_alerts(simbolo, events_result)
    /\ pc' = "alertado"
    /\ UNCHANGED <<mode, now, dias_adelante, simbolo, eventos, events_result,
                   con_data_manager, varsOrden, varsAnalyzers, varsBatch, varsDatos>>

NextEventos ==
    \/ DetectarEventos
    \/ DetectarEventosHelper
    \/ EventsAnalyze
    \/ EventsGetAlerts

SpecEventos == InitEventos /\ [][NextEventos]_vars

\* the (tipo, fecha) entries of the calendar
EntradasCalendario ==
    UNION {{<<EVENTOS_CALENDARIO[i].tipo, EVENTOS_CALENDARIO[i].fechas[j] * TicksPerDay>> :
               j \in 1..Len(EVENTOS_CALENDARIO[i].fechas)} :
           i \in 1..Len(EVENTOS_CALENDARIO)}

\* the entries with now <= fecha <= now + dias days
EntradasEnVentana(dias) ==
    {e \in EntradasCalendario :
        now <= e[2] /\ e[2] <= now + dias * TicksPerDay}

Detectado == mode = "detectar" /\ pc \in {"detectado", "detectado_helper"}

\* C7: detectar_eventos_proximos returns a calendar date exactly when
\* now <= date <= now + lookahead days, both ends included; with a lookahead of
\* 0 days an entry equal to now is returned.
C7_VentanaInclusiva ==
    Detectado =>
        /\ {<<eventos[i].tipo, eventos[i].fecha>> : i \in 1..Len(eventos)}
               = EntradasEnVentana(dias_adelante)
        /\ Len(eventos) = Cardinality(EntradasEnVentana(dias_adelante))

\* lookahead 0 at the instant of a calendar entry: that entry alone is returned
C7_Witness ==
    /\ mode = "detectar" /\ pc = "detectado"
    /\ dias_adelante = 0
    /\ Len(eventos) = 1
    /\ eventos[1].fecha = now
    /\ eventos[1].dias_restantes = 0

\* the pre-event put/call volume ratio of the DataFrame analyzed
PcrPreEvento ==
    LET rows == options_data.rows
        De(t) == {i \in 1..Len(rows) : rows[i]["tipo"] = t}
        vol == [i \in 1..Len(rows) |-> rows[i]["volume"]]
    IN  IF SumaConj(De("CALL"), vol) > 0
        THEN Rat(SumaConj(De("PUT"), vol), SumaConj(De("CALL"), vol))
        ELSE RatZero

EventosAlertado ==
    mode = "events" /\ pc = "alertado" /\ options_data # NULL /\ ~Empty(options_data)

\* C3: the events analyzer emits a defensive pre-event alert at ALTA priority
\* exactly when an event falls inside the lookahead window and the pre-event
\* put/call volume ratio is strictly greater than 1.2; at a ratio of 1.2 or
\* below it emits no defensive pre-event alert.
C3_DefensivoPreEventoSobreUmbral ==
    EventosAlertado =>
        LET defensivas ==
                {i \in 1..Len(events_alerts) :
                    events_alerts[i].tipo = "VOLUMEN_DEFENSIVO_PRE_EVENTO"}
            sobre == RatGT(PcrPreEvento, UMBRAL_PCR_DEFENSIVO)
            hay_evento == EntradasEnVentana(DIAS_ADELANTE_EVENTOS) # {}
        IN  /\ (\E i \in defensivas : events_alerts[i].prioridad = "ALTA")
                  <=> (hay_evento /\ sobre)
            /\ ~sobre => defensivas = {}

(***************************************************************************)
(* ejecutar_analisis_completo on a list of symbols: one loop iteration per *)
(* symbol, then the consolidation of the alerts.                           *)
(***************************************************************************)
MaxSimbolos == 2

SimbolosLote == {"MS", "ZZZ"}

\* what a download can come to: None, a DataFrame of no rows, a put-heavy
\* snapshot and a call-heavy one
Descargas ==
    {NULL,
     DataFrame(<<>>),
     DataFrame(<<Contrato("CALL", 3, 4, 1, 1, PrecioMuestra),
                 Contrato("PUT", 1, 7, 1, 1, PrecioMuestra)>>),
     DataFrame(<<Contrato("CALL", 3, 10, 1, 1, PrecioMuestra),
                 Contrato("PUT", 1, 5, 1, 1, PrecioMuestra)>>)}

\* a day with events ahead, a day with an event within a week, a day with none
NowMuestras == {0, 8 * TicksPerDay, MaxDia * TicksPerDay}

InitBatch ==
    /\ OrdenEnReposo /\ AnalyzersEnReposo /\ DatosEnReposo
    /\ mode = "batch" /\ pc = "loop"
    /\ now \in NowMuestras
    /\ dias_adelante = DIAS_ADELANTE_EVENTOS
    /\ simbolo = "" /\ eventos = <<>>
    /\ events_result = EmptyDict /\ events_alerts = <<>>
    /\ con_data_manager = TRUE
    /\ simbolos \in UNION {[1..n -> SimbolosLote] : n \in 0..MaxSimbolos}
    /\ idx = 1
    /\ todos_resultados = EmptyDict /\ orden_resultados = <<>>
    /\ eventos_detectados_global = <<>> /\ alertas_consolidadas = <<>>
    /\ historia = <<>> /\ opciones_cache = EmptyDict

\* one iteration of the loop: ejecutar_analisis_simbolo, the result stored
\* under the symbol, its events accumulated
AnalizarSimbolo ==
    /\ mode = "batch" /\ pc = "loop" /\ idx <= Len(simbolos)
    /\ \E descarga \in Descargas, falla \in Fallas :
          LET s == simbolos[idx]
              opciones_data ==
                  obtener_datos_opciones(opciones_cache, s, NUM_VENCIMIENTOS, descarga)
              sin_datos == opciones_data = NULL \/ Empty(opciones_data)
              resultado == ejecutar_analisis_simbolo(s, opciones_data, falla, now)
          IN  /\ sin_datos => falla = "ninguna"
              /\ opciones_cache' =
                     opciones_cache_tras(opciones_cache, s, NUM_VENCIMIENTOS, descarga)
              /\ todos_resultados' = (s :> resultado) @@ todos_resultados
              /\ orden_resultados' = orden_tras(todos_resultados, orden_resultados, s)
              /\ eventos_detectados_global' =
                     eventos_detectados_global \o EventosDeResultado(resultado)
              /\ historia' = Append(historia,
                     [simbolo |-> s,
                      datos |-> IF opciones_data = NULL THEN "None"
                                ELSE IF Empty(opciones_data) THEN "empty" ELSE "ok",
                      falla |-> falla,
                      resultado |-> resultado])
    /\ idx' = idx + 1
    /\ UNCHANGED <<mode, pc, simbolos, alertas_consolidadas,
                   varsOrden, varsAnalyzers, varsEventos, varsDatos>>

\* the loop is over: consolidar_alertas
ConsolidarAlertas ==
    /\ mode = "batch" /\ pc = "loop" /\ idx > Len(simbolos)
    /\ alertas_consolidadas' = consolidar_alertas(todos_resultados, orden_resultados)
    /\ pc' = "consolidado"
    /\ UNCHANGED <<mode, simbolos, idx, todos_resultados, orden_resultados,
                   eventos_detectados_global, historia, opciones_cache,
                   varsOrden, varsAnalyzers, varsEventos, varsDatos>>

NextBatch == AnalizarSimbolo \/ ConsolidarAlertas

SpecBatch == InitBatch /\ [][NextBatch]_vars

\* C9: each call of ejecutar_analisis_simbolo returns either an empty result
\* or a result holding all three sections volume_analyzer,
\* open_interest_analyzer and events_analyzer, also when a later analyzer fails.
C9_AnalisisAtomico ==
    mode = "batch" =>
        \A i \in 1..Len(historia) :
            \/ DOMAIN historia[i].resultado = {}
            \/ DOMAIN historia[i].resultado = SeqRange(ANALYZERS)

\* the iterations on symbol s all had no snapshot, an empty one, or a failure
SinAnalisisLogrado(s) ==
    \A i \in 1..Len(historia) :
        historia[i].simbolo = s =>
            historia[i].datos # "ok" \/ historia[i].falla # "ninguna"

\* C10: when the batch is consolidated every symbol of the list has been
\* analyzed, and a symbol whose snapshot was absent or empty or whose analysis
\* failed has no alert among the consolidated alerts and no event among the
\* accumulated events.
C10_SimboloFallidoNoAporta ==
    (mode = "batch" /\ pc = "consolidado") =>
        /\ Len(historia) = Len(simbolos)
        /\ \A i \in 1..Len(simbolos) : historia[i].simbolo = simbolos[i]
        /\ \A s \in SeqRange(simbolos) :
              SinAnalisisLogrado(s) =>
                  /\ \A i \in 1..Len(alertas_consolidadas) :
                        alertas_consolidadas[i].simbolo # s
                  /\ \A i \in 1..Len(eventos_detectados_global) :
                        eventos_detectados_global[i].simbolo # s

(***************************************************************************)
(* DataManager: calls of obtener_datos_opciones on a manager that starts   *)
(* with empty caches, with time passing between the calls.  historia holds *)
(* the arguments and the upstream answers of the last call.                *)
(***************************************************************************)
MaxLlamadas == 2

SimbolosDatos == {"MS", "MSFT"}

\* instants at and around the two time-to-live limits
Instantes == {0, TTL_PRECIO - 1, TTL_PRECIO, TTL_VENCIMIENTOS - 1, TTL_VENCIMIENTOS}

FilaCruda(strike, volume, openInterest) ==
    [strike |-> strike, volume |-> volume, openInterest |-> openInterest]

\* a chain with every strike of the sample below, at and above the price
CadenaCompleta ==
    [calls |-> <<FilaCruda(1, 1, 1), FilaCruda(2, 2, 1), FilaCruda(3, 0, 2)>>,
     puts  |-> <<FilaCruda(1, 2, 0), FilaCruda(2, 1, 1), FilaCruda(3, 1, 1)>>]

CadenaCorta ==
    [calls |-> <<FilaCruda(2, 1, 1)>>, puts |-> <<FilaCruda(3, 2, 1)>>]

CadenaVacia == [calls |-> <<>>, puts |-> <<>>]

UpstreamSano ==
    [ticker_falla |-> FALSE,
     info |-> [currentPrice |-> Num(PrecioMuestra)],
     options |-> [fechas |-> <<1, 2>>],
     cadenas |-> <<CadenaCompleta, CadenaCorta>>]

Upstreams ==
    {UpstreamSano,
     [UpstreamSano EXCEPT !.info = [regularMarketPrice |-> Num(PrecioMuestra + 1)],
                          !.options = [fechas |-> <<2>>]],
     [UpstreamSano EXCEPT !.cadenas = <<CadenaVacia, CadenaVacia>>],
     [UpstreamSano EXCEPT !.ticker_falla = TRUE],
     [UpstreamSano EXCEPT !.info = Raised("Exception")],
     [UpstreamSano EXCEPT !.info = EmptyDict],
     [UpstreamSano EXCEPT !.info = [currentPrice |-> Num(0 - 1),
                                    regularMarketPrice |-> Num(PrecioMuestra)]],
     [UpstreamSano EXCEPT !.info = [currentPrice |-> NULL]],
     [UpstreamSano EXCEPT !.options = [fechas |-> <<>>]],
     [UpstreamSano EXCEPT !.options = Raised("Exception")],
     [UpstreamSano EXCEPT !.cadenas = <<CadenaCompleta, Raised("Exception")>>]}

\* (num_vencimientos, include_moneyness, usar_cache) of a call
Argumentos ==
    {<<NUM_VENCIMIENTOS, TRUE, TRUE>>, <<1, TRUE, TRUE>>,
     <<NUM_VENCIMIENTOS, FALSE, TRUE>>, <<NUM_VENCIMIENTOS, TRUE, FALSE>>}

InitDatos ==
    /\ OrdenEnReposo /\ AnalyzersEnReposo /\ EventosEnReposo /\ BatchEnReposo
    /\ DatosEnReposo
    /\ mode = "datos" /\ pc = "idle"

ObtenerDatosOpciones ==
    /\ mode = "datos" /\ llamadas < MaxLlamadas
    /\ \E symbol \in SimbolosDatos, args \in Argumentos, upstream \in Upstreams :
          LET num_vencimientos == args[1]
              include_moneyness == args[2]
              usar_cache == args[3]
              descarga == Descargar(symbol, num_vencimientos, include_moneyness,
                                    upstream, precios_cache, vencimientos_cache, reloj)
              cache_key == CacheKey(symbol, num_vencimientos)
              acierto == EnCache(opciones_cache, symbol, num_vencimientos, usar_cache)
          IN  /\ IF EnCache(opciones_cache, symbol, num_vencimientos, usar_cache)
                 THEN /\ retorno' = opciones_cache[cache_key]
                      /\ compartidas' = compartidas_tras_acierto(cache_key)
                      /\ UNCHANGED <<opciones_cache, precios_cache, vencimientos_cache,
                                     poblado>>
                 ELSE /\ retorno' = descarga
                      /\ compartidas' =
                             IF descarga = NULL THEN {}
                             ELSE compartidas_tras_guardar(cache_key)
                      /\ poblado' =
                             IF descarga = NULL THEN poblado
                             ELSE (cache_key :> descarga) @@ poblado
                      /\ opciones_cache' =
                             opciones_cache_descarga(opciones_cache, symbol,
                                                     num_vencimientos, descarga)
                      /\ precios_cache' =
                             precios_cache_descarga(precios_cache, symbol, upstream, reloj)
                      /\ vencimientos_cache' =
                             vencimientos_cache_descarga(precios_cache, vencimientos_cache,
                                                         symbol, upstream, reloj)
              /\ historia' = <<[symbol |-> symbol,
                                num_vencimientos |-> num_vencimientos,
                                include_moneyness |-> include_moneyness,
                                usar_cache |-> usar_cache,
                                upstream |-> upstream,
                                acierto |-> EnCache(opciones_cache, symbol,
                                                    num_vencimientos, usar_cache),
                                pidio_precio |-> ~acierto /\ ~upstream.ticker_falla,
                                consulto_info |->
                                    ~acierto /\ ConsultaInfo(precios_cache, symbol,
                                                             upstream, reloj),
                                pidio_vencimientos |->
                                    ~acierto /\ PideVencimientos(precios_cache, symbol,
                                                                 upstream, reloj),
                                consulto_options |->
                                    ~acierto /\ ConsultaOptions(precios_cache,
                                                                vencimientos_cache,
                                                                symbol, upstream, reloj),
                                limpiado |-> "-",
                                mutado |-> FALSE,
                                tras_mutacion |->
                                    historia # <<>> /\ historia[1].mutado]>>
    /\ llamadas' = llamadas + 1
    /\ pc' = "returned"
    /\ UNCHANGED <<mode, reloj, simbolos, idx, todos_resultados, orden_resultados,
                   eventos_detectados_global, alertas_consolidadas,
                   varsOrden, varsAnalyzers, varsEventos>>

\* time passes between two calls
Esperar ==
    /\ mode = "datos" /\ llamadas < MaxLlamadas
    /\ \E t \in Instantes : t > reloj /\ reloj' = t
    /\ UNCHANGED <<mode, pc, precios_cache, vencimientos_cache, llamadas, retorno,
                   compartidas, poblado,
                   varsOrden, varsAnalyzers, varsEventos, varsBatch>>

\* what a caller does to the table it was returned: VolumeAnalyzer.analyze
\* adds its two columns (main.py:95), or rows are dropped in place
Mutaciones(df) ==
    {VolumeAnalyzer_analyze_df(df),
     [df EXCEPT !.rows = SubSeq(df.rows, 1, Len(df.rows) - 1)]} \ {df}

\* the caller mutates the table the last call returned
MutarRetorno ==
    /\ mode = "datos" /\ pc = "returned" /\ retorno # NULL
    /\ \E mutada \in Mutaciones(retorno) :
          /\ retorno' = mutada
          /\ opciones_cache' = opciones_cache_tras_mutar(opciones_cache, compartidas, mutada)
    /\ historia' = <<[historia[1] EXCEPT !.mutado = TRUE]>>
    /\ pc' = "mutated"
    /\ UNCHANGED <<mode, precios_cache, vencimientos_cache, reloj, llamadas,
                   compartidas, poblado, simbolos, idx, todos_resultados,
                   orden_resultados, eventos_detectados_global, alertas_consolidadas,
                   varsOrden, varsAnalyzers, varsEventos>>

\* limpiar_cache(symbol), or limpiar_cache() where symbol is ""
LimpiarCache ==
    /\ mode = "datos" /\ pc \in {"returned", "mutated"}
    /\ \E symbol \in SimbolosDatos \cup {""} :
          /\ opciones_cache' = limpiar_opciones_cache(opciones_cache, symbol)
          /\ precios_cache' = limpiar_por_simbolo(precios_cache, symbol)
          /\ vencimientos_cache' = limpiar_por_simbolo(vencimientos_cache, symbol)
          /\ historia' = <<[historia[1] EXCEPT !.limpiado = symbol]>>
    /\ compartidas' = compartidas \cap DOMAIN opciones_cache'
    /\ pc' = "cleared"
    /\ UNCHANGED <<mode, reloj, llamadas, retorno, poblado, simbolos, idx,
                   todos_resultados, orden_resultados, eventos_detectados_global,
                   alertas_consolidadas, varsOrden, varsAnalyzers, varsEventos>>

NextDatos == ObtenerDatosOpciones \/ Esperar \/ MutarRetorno \/ LimpiarCache

SpecDatos == InitDatos /\ [][NextDatos]_vars

EsDataFrame(x) == DOMAIN x = {"columns", "rows"}

\* C11: obtener_datos_opciones returns None or a DataFrame, never an exception;
\* a call that consults upstream returns a DataFrame only if the ticker was
\* built, the price it saw is positive, the expirations it saw are not empty
\* and no option chain it asked for failed; and a call that returns None leaves
\* the option-chain cache as it was.
C11_NuncaLanzaNiGuardaFallos ==
    [][llamadas' = llamadas + 1 =>
        LET h == historia'[1]
            u == h.upstream
            acierto == EnCache(opciones_cache, h.symbol, h.num_vencimientos,
                               h.usar_cache)
        IN  /\ retorno' = NULL \/ EsDataFrame(retorno')
            /\ (~acierto /\ retorno' # NULL) =>
                  /\ ~u.ticker_falla
                  /\ h.symbol \in DOMAIN precios_cache'
                  /\ precios_cache'[h.symbol].precio # NULL
                  /\ precios_cache'[h.symbol].precio.valor > 0
                  /\ h.symbol \in DOMAIN vencimientos_cache'
                  /\ LET exp_dates == vencimientos_cache'[h.symbol].exp_dates
                     IN  /\ exp_dates # <<>>
                         /\ \A i \in 1..Len(exp_dates) :
                               i <= h.num_vencimientos =>
                                   ~HaRaised(u.cadenas[exp_dates[i]])
            /\ (~acierto /\ ~HaRaised(u.info) /\ ~u.ticker_falla
                /\ ~Vigente(precios_cache, h.symbol, reloj, TTL_PRECIO)
                /\ (PrecioDeInfo(u.info) = NULL \/ PrecioDeInfo(u.info).valor <= 0))
                  => retorno' = NULL
            /\ (~acierto /\ (u.ticker_falla
                             \/ (HaRaised(u.info)
                                 /\ ~Vigente(precios_cache, h.symbol, reloj, TTL_PRECIO))
                             \/ (HaRaised(u.options)
                                 /\ ~Vigente(vencimientos_cache, h.symbol, reloj,
                                             TTL_VENCIMIENTOS))))
                  => retorno' = NULL
            /\ retorno' = NULL => opciones_cache' = opciones_cache]_vars

\* the chain of MS is cached, then a fetch of MSFT fails on its second option
\* chain: None is returned and the cache holds the chain of MS alone
C11_Witness ==
    /\ mode = "datos" /\ llamadas = 2
    /\ retorno = NULL
    /\ historia[1].symbol = "MSFT"
    /\ HaRaised(historia[1].upstream.cadenas[2])
    /\ ~HaRaised(historia[1].upstream.cadenas[1])
    /\ DOMAIN opciones_cache = {CacheKey("MS", NUM_VENCIMIENTOS)}

\* C12: VolumeAnalyzer.analyze, OpenInterestAnalyzer.analyze and
\* EventsAnalyzer.analyze leave the DataFrame passed to them unchanged: same
\* rows, same columns, same values.
C12_TablaSinMutar == [][options_data' = options_data]_vars

\* get_alerts of the events analyzer has returned
EventosConAlertas == mode = "events" /\ pc = "alertado"

AlertasDeTipo(alerts, t) == {i \in 1..Len(alerts) : alerts[i].tipo = t}

\* C13: EventsAnalyzer.get_alerts emits EVENTO_INMINENTE, at priority ALTA,
\* iff at least one event of the analysis result has fewer than 7 days
\* remaining (7 days exactly does not count); it emits it once, with the number
\* of such events as its value.
C13_EventoInminente ==
    EventosConAlertas =>
        LET evs == events_result.eventos
            cerca == {i \in 1..Len(evs) : evs[i].dias_restantes < 7}
            inminentes == AlertasDeTipo(events_alerts, "EVENTO_INMINENTE")
        IN  /\ inminentes # {} <=> cerca # {}
            /\ Cardinality(inminentes) <= 1
            /\ \A i \in inminentes :
                  /\ events_alerts[i].prioridad = "ALTA"
                  /\ events_alerts[i].valor = RatInt(Cardinality(cerca))
            /\ \A i \in 1..Len(evs) :
                  evs[i].dias_restantes = (evs[i].fecha - now) \div TicksPerDay

\* one event today and another at exactly 7 days: one alert, of value 1
C13_Witness ==
    /\ EventosConAlertas
    /\ \E i \in 1..Len(events_result.eventos) :
          events_result.eventos[i].dias_restantes = 7
    /\ \E i \in 1..Len(events_result.eventos) :
          events_result.eventos[i].dias_restantes = 0
    /\ \E i \in 1..Len(events_alerts) :
          /\ events_alerts[i].tipo = "EVENTO_INMINENTE"
          /\ events_alerts[i].valor = RatInt(1)

\* C14: EventsAnalyzer.get_alerts emits MULTIPLES_EVENTOS, at priority MEDIA,
\* iff more than 3 events fall inside the lookahead window of the symbol; 3
\* events emit none.
C14_MultiplesEventos ==
    EventosConAlertas =>
        LET en_ventana == Cardinality(EntradasEnVentana(DIAS_ADELANTE_EVENTOS))
            multiples == AlertasDeTipo(events_alerts, "MULTIPLES_EVENTOS")
        IN  /\ multiples # {} <=> en_ventana > 3
            /\ Cardinality(multiples) <= 1
            /\ \A i \in multiples :
                  /\ events_alerts[i].prioridad = "MEDIA"
                  /\ events_alerts[i].valor = RatInt(en_ventana)

\* four events in the window, and the alert
C14_Witness ==
    /\ EventosConAlertas
    /\ Len(events_result.eventos) = 4
    /\ AlertasDeTipo(events_alerts, "MULTIPLES_EVENTOS") # {}

\* the categories with an event in the lookahead window
TiposEnVentana == {e[1] : e \in EntradasEnVentana(DIAS_ADELANTE_EVENTOS)}

\* C15: for each matched event category EventsAnalyzer.get_alerts emits one
\* VOLUMEN_OFENSIVO_PRE_EVENTO alert, at priority MEDIA, iff the pre-event
\* put/call ratio is strictly between 0 and 0.7; a ratio of 0 emits none, and
\* no such alert is emitted for a category without an event in the window.
C15_OfensivoPreEvento ==
    EventosConAlertas =>
        LET ofensivas == AlertasDeTipo(events_alerts, "VOLUMEN_OFENSIVO_PRE_EVENTO")
            De(t) == {i \in ofensivas : events_alerts[i].descripcion = t}
            entre == RatLT(RatZero, PcrPreEvento) /\ RatLT(PcrPreEvento, Rat(7, 10))
        IN  /\ \A t \in TiposEnVentana :
                  Cardinality(De(t)) = IF entre THEN 1 ELSE 0
            /\ \A i \in ofensivas :
                  /\ events_alerts[i].descripcion \in TiposEnVentana
                  /\ events_alerts[i].prioridad = "MEDIA"
                  /\ events_alerts[i].valor = PcrPreEvento

\* a ratio of 1/2 with three categories in the window: three alerts
C15_Witness ==
    /\ EventosConAlertas
    /\ PcrPreEvento = Rat(1, 2)
    /\ Cardinality(TiposEnVentana) = 3
    /\ Cardinality(AlertasDeTipo(events_alerts, "VOLUMEN_OFENSIVO_PRE_EVENTO")) = 3

\* OpenInterestAnalyzer.get_alerts has returned
OIAlertado ==
    mode \in {"analyze", "oi_get_alerts"} /\ (pc = "oi_alerts" \/ TrasOI)

\* C16: OpenInterestAnalyzer.get_alerts returns exactly the alerts of the open
\* interest rules whose condition holds, each at most once and nothing else:
\* OI_PUTS_EXTREMO at ALTA iff oi_put_call_ratio > 1.3, OI_CONCENTRADO at MEDIA
\* iff oi_concentration > 40, OI_ITM_OTM_ANOMALO at MEDIA iff oi_itm_otm_ratio
\* > 1.5 or 0 < oi_itm_otm_ratio < 0.3; a metric that is absent counts as 0.
C16_AlertasDeOIExactas ==
    OIAlertado =>
        LET pcr == Get(oi_result, "oi_put_call_ratio", RatZero)
            conc == Get(oi_result, "oi_concentration", RatZero)
            io == Get(oi_result, "oi_itm_otm_ratio", RatZero)
            anomalo == \/ RatLT(Rat(15, 10), io)
                       \/ (RatLT(RatZero, io) /\ RatLT(io, Rat(3, 10)))
            Uno(c) == IF c THEN 1 ELSE 0
        IN  /\ Cuenta(oi_alerts, "OI_PUTS_EXTREMO") = Uno(RatLT(Rat(13, 10), pcr))
            /\ Cuenta(oi_alerts, "OI_CONCENTRADO") = Uno(RatLT(RatInt(40), conc))
            /\ Cuenta(oi_alerts, "OI_ITM_OTM_ANOMALO") = Uno(anomalo)
            /\ TiposDe(oi_alerts) \subseteq
                   {"OI_PUTS_EXTREMO", "OI_CONCENTRADO", "OI_ITM_OTM_ANOMALO"}
            /\ \A i \in 1..Len(oi_alerts) :
                  /\ oi_alerts[i].tipo = "OI_PUTS_EXTREMO" =>
                        oi_alerts[i].prioridad = "ALTA" /\ oi_alerts[i].valor = pcr
                  /\ oi_alerts[i].tipo = "OI_CONCENTRADO" =>
                        oi_alerts[i].prioridad = "MEDIA" /\ oi_alerts[i].valor = conc
                  /\ oi_alerts[i].tipo = "OI_ITM_OTM_ANOMALO" =>
                        oi_alerts[i].prioridad = "MEDIA" /\ oi_alerts[i].valor = io

\* put/call ratio exactly 1.3 (no alert), concentration 40.1 and ITM/OTM ratio
\* 0.1: the concentration alert and the anomaly alert, in that order
C16_Witness ==
    /\ mode = "oi_get_alerts" /\ pc = "oi_alerts"
    /\ DOMAIN oi_result = {"oi_put_call_ratio", "oi_concentration", "oi_itm_otm_ratio"}
    /\ oi_result["oi_put_call_ratio"] = Rat(13, 10)
    /\ oi_result["oi_itm_otm_ratio"] = Rat(1, 10)
    /\ Len(oi_alerts) = 2
    /\ oi_alerts[1].tipo = "OI_CONCENTRADO"
    /\ oi_alerts[2].tipo = "OI_ITM_OTM_ANOMALO"

\* the last call of obtener_datos_opciones returned a DataFrame with the
\* moneyness columns
RetornoConMoneyness ==
    /\ mode = "datos" /\ pc = "returned"
    /\ retorno # NULL
    /\ "moneyness" \in retorno.columns

\* C17: in a DataFrame built by obtener_datos_opciones every contract has
\* moneyness = strike / underlying price and is ITM exactly when it is a CALL
\* with moneyness > 1 or a PUT with moneyness < 1, OTM otherwise (so at
\* moneyness 1 a CALL and a PUT are both OTM); contracts of equal type, strike
\* and underlying price carry the same label.
C17_MoneynessYClasificacion ==
    RetornoConMoneyness =>
        /\ \A i \in 1..Len(retorno.rows) :
              LET r == retorno.rows[i]
                  k == r["strike"]
                  p == r["precio_subyacente"]
                  m == r["moneyness"]
              IN  /\ p > 0 /\ m.den > 0
                  /\ m.num * p = k * m.den
                  /\ r["itm_otm"] \in {"ITM", "OTM"}
                  /\ r["itm_otm"] = "ITM" <=>
                        \/ (r["tipo"] = "CALL" /\ k > p)
                        \/ (r["tipo"] = "PUT" /\ k < p)
        /\ \A i, j \in 1..Len(retorno.rows) :
              LET a == retorno.rows[i]
                  b == retorno.rows[j]
              IN  (a["tipo"] = b["tipo"] /\ a["strike"] = b["strike"]
                   /\ a["precio_subyacente"] = b["precio_subyacente"])
                      => a["itm_otm"] = b["itm_otm"]

\* a downloaded chain with a CALL and a PUT at the money, both OTM, next to an
\* ITM CALL and an ITM PUT
C17_Witness ==
    /\ RetornoConMoneyness
    /\ \A t \in {"CALL", "PUT"} :
          /\ \E i \in 1..Len(retorno.rows) :
                /\ retorno.rows[i]["tipo"] = t
                /\ retorno.rows[i]["strike"] = retorno.rows[i]["precio_subyacente"]
                /\ retorno.rows[i]["itm_otm"] = "OTM"
          /\ \E i \in 1..Len(retorno.rows) :
                /\ retorno.rows[i]["tipo"] = t
                /\ retorno.rows[i]["itm_otm"] = "ITM"

\* the three analyzers have run on one non-empty snapshot
SnapshotAnalizado == ConDatos /\ EventosAnalizado

\* C18: the pre-event metrics of every matched event category agree with the
\* volume metrics of the same snapshot (pcr_ratio = vol_put_call_ratio,
\* itm_calls + itm_puts = vol_itm, otm_calls + otm_puts = vol_otm,
\* total_volumen = vol_total), and the metrics recorded for the categories and
\* for the events of a symbol are all the same.
C18_MetricasPreEventoIgualAVolumen ==
    SnapshotAnalizado =>
        LET pre == events_result.metricas_pre_evento
            evs == events_result.eventos
        IN  /\ DOMAIN pre = {evs[i].tipo : i \in 1..Len(evs)}
            /\ \A t \in DOMAIN pre :
                  /\ pre[t].pcr_ratio = vol_result["vol_put_call_ratio"]
                  /\ pre[t].itm_calls + pre[t].itm_puts = vol_result["vol_itm"]
                  /\ pre[t].otm_calls + pre[t].otm_puts = vol_result["vol_otm"]
                  /\ pre[t].total_volumen = vol_result["vol_total"]
            /\ \A t, u \in DOMAIN pre : pre[t] = pre[u]
            /\ \A i \in 1..Len(evs) : evs[i].volumen_analisis = pre[evs[i].tipo]

\* three matched categories on a snapshot with an ITM CALL and a PUT at the
\* money, both traded
C18_Witness ==
    /\ SnapshotAnalizado
    /\ Cardinality(DOMAIN events_result.metricas_pre_evento) = 3
    /\ \E i, j \in Indices :
          /\ options_data.rows[i]["tipo"] = "CALL"
          /\ options_data.rows[i]["itm_otm"] = "ITM"
          /\ options_data.rows[i]["volume"] > 0
          /\ options_data.rows[j]["tipo"] = "PUT"
          /\ options_data.rows[j]["moneyness"] = RatInt(1)
          /\ options_data.rows[j]["volume"] > 0
    /\ events_result.metricas_pre_evento["fomc_meetings"].otm_puts > 0

\* open interest summed over the contracts of the snapshot at strike k
OIEnStrike(k) == OIDe({i \in Indices : options_data.rows[i]["strike"] = k})

\* the rows whose strike carries the largest summed open interest
FilasDeMayorOI ==
    {i \in Indices :
        \A j \in Indices :
            OIEnStrike(options_data.rows[j]["strike"])
                <= OIEnStrike(options_data.rows[i]["strike"])}

\* C19: top_strike_oi is the strike with the largest open interest summed over
\* its contracts and top_strike_oi_value is that sum; when several strikes tie,
\* the one that appears first in the row order of the snapshot is reported.
C19_StrikeDeMayorOI ==
    (ConDatos /\ OIAnalizado) =>
        LET primera == CHOOSE i \in FilasDeMayorOI : \A j \in FilasDeMayorOI : i <= j
            strike  == options_data.rows[primera]["strike"]
        IN  /\ oi_result["top_strike_oi"] = strike
            /\ oi_result["top_strike_oi_value"] = OIEnStrike(strike)

\* C19 without the tie-break: the reported strike is one of those with the
\* largest summed open interest, and the reported value is that sum
C19_StrikeMaximal ==
    (ConDatos /\ OIAnalizado) =>
        /\ \E i \in FilasDeMayorOI :
              oi_result["top_strike_oi"] = options_data.rows[i]["strike"]
        /\ \A i \in FilasDeMayorOI :
              oi_result["top_strike_oi_value"]
                  = OIEnStrike(options_data.rows[i]["strike"])

\* the k-th smallest volume of the snapshot
VolumenDeRango(k) ==
    CHOOSE x \in {options_data.rows[i]["volume"] : i \in Indices} :
        /\ Cardinality({i \in Indices : options_data.rows[i]["volume"] <= x}) >= k
        /\ Cardinality({i \in Indices : options_data.rows[i]["volume"] < x}) < k

\* the contracts whose volume is above the percentile p of the volumes of the
\* snapshot: the percentile lies at rank 1 + (n - 1) * p / 100, between the
\* two volumes of the neighbouring ranks
SobrePercentil(p) ==
    LET n     == Len(options_data.rows)
        pos   == (n - 1) * p
        abajo == VolumenDeRango((pos \div 100) + 1)
        arriba == VolumenDeRango(Min((pos \div 100) + 2, n))
    IN  {i \in Indices :
            100 * options_data.rows[i]["volume"]
                > 100 * abajo + (pos % 100) * (arriba - abajo)}

\* C20: contratos_alta_actividad is the number of contracts whose volume is
\* strictly greater than the 95th percentile (PERCENTIL_VOLUMEN_ALTO) of the
\* volumes of the same snapshot, and vol_alta_actividad is the sum of the
\* volumes of exactly those contracts.
C20_AltaActividadSobrePercentil ==
    (ConDatos /\ VolumenAnalizado) =>
        /\ PERCENTIL_VOLUMEN_ALTO = 95
        /\ vol_result["contratos_alta_actividad"]
               = Cardinality(SobrePercentil(PERCENTIL_VOLUMEN_ALTO))
        /\ vol_result["vol_alta_actividad"]
               = VolDe(SobrePercentil(PERCENTIL_VOLUMEN_ALTO))

\* a snapshot with contracts above and below its own percentile
C20_Witness ==
    /\ ConDatos /\ VolumenAnalizado
    /\ vol_result["contratos_alta_actividad"] = 1
    /\ vol_result["vol_alta_actividad"] > 0
    /\ vol_result["vol_alta_actividad"] < vol_result["vol_total"]

\* the batch is over and its alerts are consolidated
Consolidado == mode = "batch" /\ pc = "consolidado"

PRE_EVENTO == {"VOLUMEN_DEFENSIVO_PRE_EVENTO", "VOLUMEN_OFENSIVO_PRE_EVENTO"}

\* symbol, analyzer, alert type and, for a pre-event alert, the event category
\* that triggered it
ClaveDeAlerta(a) ==
    <<a.simbolo, a.analizador, a.tipo,
      IF a.tipo \in PRE_EVENTO THEN a.descripcion ELSE "">>

\* C21: after a batch no two consolidated alerts have the same symbol,
\* analyzer, alert type and triggering event category, also when the list of
\* symbols names a symbol more than once.
C21_AlertasSinDuplicados ==
    Consolidado =>
        \A i, j \in 1..Len(alertas_consolidadas) :
            i # j => ClaveDeAlerta(alertas_consolidadas[i])
                         # ClaveDeAlerta(alertas_consolidadas[j])

\* a symbol named twice, analyzed twice on a snapshot, with alerts of the
\* three analyzers' kinds consolidated
C21_Witness ==
    /\ Consolidado
    /\ Len(simbolos) = 2 /\ simbolos[1] = simbolos[2]
    /\ \A i \in 1..2 : historia[i].datos = "ok" /\ historia[i].falla = "ninguna"
    /\ \E i, j \in 1..Len(alertas_consolidadas) :
          /\ alertas_consolidadas[i].tipo \in PRE_EVENTO
          /\ alertas_consolidadas[j].analizador = "volume_analyzer"

\* C22: a cache hit for (symbol, num_vencimientos) returns a table equal to
\* the one the fetch that populated the entry returned, and a table held in the
\* cache stays equal to it whatever the callers do to the tables they were
\* returned.
C22_CacheIgualALaDescarga ==
    mode = "datos" =>
        /\ \A k \in DOMAIN opciones_cache : opciones_cache[k] = poblado[k]
        /\ (pc = "returned" /\ historia[1].acierto) =>
              retorno = poblado[CacheKey(historia[1].symbol,
                                         historia[1].num_vencimientos)]

\* a fetch populated the cache, the caller changed the table it got, and the
\* next call hit the cache
C22_Witness ==
    /\ mode = "datos" /\ pc = "returned"
    /\ historia[1].acierto /\ historia[1].tras_mutacion
    /\ retorno # NULL /\ ~Empty(retorno)

\* the age in seconds of the entry of symbol in cache, at the instant reloj
Edad(cache, symbol) == reloj - cache[symbol].timestamp

EntradasDe(opciones, precios, vencimientos, s) ==
    [opciones |-> {<<n, opciones[CacheKey(s, n)]>> :
                      n \in {m \in 1..NUM_VENCIMIENTOS : CacheKey(s, m) \in DOMAIN opciones}},
     precios |-> IF s \in DOMAIN precios THEN {precios[s]} ELSE {},
     vencimientos |-> IF s \in DOMAIN vencimientos THEN {vencimientos[s]} ELSE {}]

\* C24: limpiar_cache(symbol) removes only the data of that symbol: the
\* option-chain, price and expiration entries of every other symbol are left
\* as they were, also those of a symbol whose name begins with the cleared
\* name (clearing MS keeps the chains of MSFT).
C24_LimpiarSoloElSimbolo ==
    [][(pc' = "cleared" /\ historia'[1].limpiado # "") =>
        \A s \in SimbolosDatos \ {historia'[1].limpiado} :
            EntradasDe(opciones_cache', precios_cache', vencimientos_cache', s)
                = EntradasDe(opciones_cache, precios_cache, vencimientos_cache, s)
    ]_vars

\* analyze was called without options data: None or a DataFrame of no rows
SinDatosDeOpciones ==
    mode = "events" /\ (IF options_data = NULL THEN TRUE ELSE Empty(options_data))

\* C25: EventsAnalyzer.analyze called with no options data (omitted or empty)
\* does not raise and returns the events, the pre-event metrics and the event
\* count; with no data the pre-event metrics of every matched category are
\* empty and get_alerts gives no pre-event alert.
C25_DatosDeOpcionesOpcionales ==
    SinDatosDeOpciones =>
        /\ pc # "error"
        /\ pc \in {"analizado", "alertado"} =>
              /\ {"eventos", "metricas_pre_evento", "cantidad_eventos"}
                     \subseteq DOMAIN events_result
              /\ events_result.cantidad_eventos = Len(events_result.eventos)
              /\ \A t \in DOMAIN events_result.metricas_pre_evento :
                    events_result.metricas_pre_evento[t] = EmptyDict
        /\ pc = "alertado" =>
              \A i \in 1..Len(events_alerts) : events_alerts[i].tipo \notin PRE_EVENTO

\* C25 for a DataFrame of no rows alone: analyze returns the three parts with
\* empty metrics and no pre-event alert follows
C25_TablaVacia ==
    (SinDatosDeOpciones /\ options_data # NULL) => C25_DatosDeOpcionesOpcionales

\* every contract of the snapshot is typed CALL or PUT and classified ITM or OTM
TodoClasificado ==
    \A i \in Indices :
        /\ options_data.rows[i]["tipo"] \in {"CALL", "PUT"}
        /\ "itm_otm" \in DOMAIN options_data.rows[i]
        /\ options_data.rows[i]["itm_otm"] \in {"ITM", "OTM"}

\* C26: on a non-empty snapshot whose contracts are all CALL or PUT and ITM or
\* OTM the totals are partitions: vol_calls + vol_puts = vol_total,
\* vol_itm + vol_otm = vol_total, oi_calls + oi_puts = oi_total and
\* oi_itm + oi_otm = oi_total.
C26_TotalesSonParticiones ==
    (ConDatos /\ TodoClasificado) =>
        /\ VolumenAnalizado =>
              /\ vol_result["vol_calls"] + vol_result["vol_puts"] = vol_result["vol_total"]
              /\ vol_result["vol_itm"] + vol_result["vol_otm"] = vol_result["vol_total"]
              /\ vol_result["vol_total"] = VolDe(Indices)
        /\ OIAnalizado =>
              /\ oi_result["oi_calls"] + oi_result["oi_puts"] = oi_result["oi_total"]
              /\ oi_result["oi_itm"] + oi_result["oi_otm"] = oi_result["oi_total"]
              /\ oi_result["oi_total"] = OIDe(Indices)

\* both analyzers ran on a snapshot with volume and open interest in an ITM
\* CALL and in an OTM PUT
C26_Witness ==
    /\ ConDatos /\ TodoClasificado /\ OIAnalizado
    /\ \E i, j \in Indices :
          /\ options_data.rows[i]["tipo"] = "CALL" /\ options_data.rows[i]["itm_otm"] = "ITM"
          /\ options_data.rows[j]["tipo"] = "PUT" /\ options_data.rows[j]["itm_otm"] = "OTM"
          /\ options_data.rows[i]["volume"] > 0 /\ options_data.rows[j]["volume"] > 0
          /\ options_data.rows[i]["openInterest"] > 0
          /\ options_data.rows[j]["openInterest"] > 0
    /\ vol_result["vol_itm"] > 0 /\ vol_result["vol_otm"] > 0
    /\ oi_result["oi_calls"] > 0 /\ oi_result["oi_puts"] > 0

\* category, date and days remaining of each event, in order
SinSimbolo(evs) ==
    [i \in 1..Len(evs) |-> <<evs[i].tipo, evs[i].fecha, evs[i].dias_restantes>>]

\* the sector a symbol is configured under
SectorConfigurado(s) ==
    IF \E i \in 1..Len(SECTORES) : s \in SECTORES[i].simbolos
    THEN (CHOOSE x \in SeqRange(SECTORES) : s \in x.simbolos).sector
    ELSE "Unknown"

\* C27: the events detectar_eventos_proximos returns for a symbol are, at the
\* same time and lookahead, the events it returns for any other symbol (one
\* of no configured sector included) in category, date and days remaining;
\* they differ only in the symbol and sector attached.
C27_EventosIndependientesDelSimbolo ==
    (mode = "detectar" /\ pc = "detectado") =>
        /\ \A otro \in SimbolosMuestra \cup {"AAPL"} :
              SinSimbolo(EventsAnalyzer_detectar_eventos_proximos(otro, dias_adelante, now))
                  = SinSimbolo(eventos)
        /\ \A i \in 1..Len(eventos) :
              /\ eventos[i].simbolo = simbolo
              /\ eventos[i].sector = SectorConfigurado(simbolo)

\* a symbol of no sector with events of two categories in its window
C27_Witness ==
    /\ mode = "detectar" /\ pc = "detectado"
    /\ simbolo = "ZZZ"
    /\ \E i, j \in 1..Len(eventos) :
          /\ eventos[i].tipo = "earnings_season" /\ eventos[j].tipo # "earnings_season"
          /\ eventos[i].sector = "Unknown"

\* ceil(0.05 * (n - 1)), in integers
TopeAltaActividad(n) == (5 * (n - 1) + 99) \div 100

\* C28: for a snapshot of n contracts contratos_alta_actividad is at most
\* ceil(0.05 * (n - 1)), and 0 when all the volumes are equal; so get_alerts
\* emits CONCENTRACION_VOLUMEN (count above 5) only for snapshots of 102
\* contracts or more.
C28_TopeDeAltaActividad ==
    (mode = "analyze" /\ pc \in {"vol_analyzed", "vol_alerts"}
        /\ options_data # NULL /\ ~Empty(options_data)) =>
        LET n == Len(options_data.rows)
            volumenes == SeqRange(Columna(options_data.rows, "volume"))
        IN  /\ vol_result["contratos_alta_actividad"] <= TopeAltaActividad(n)
            /\ Cardinality(volumenes) = 1 =>
                  vol_result["contratos_alta_actividad"] = 0
            /\ (pc = "vol_alerts"
                  /\ \E i \in 1..Len(vol_alerts) :
                        vol_alerts[i].tipo = "CONCENTRACION_VOLUMEN")
                  => n >= 102

\* analyze and get_alerts on 102 contracts of different volumes: six of them
\* are over the percentile and the alert is emitted
C28_Witness ==
    /\ mode = "analyze" /\ pc = "vol_alerts"
    /\ options_data # NULL
    /\ Len(options_data.rows) = 102
    /\ vol_result["contratos_alta_actividad"] = TopeAltaActividad(102)
    /\ \E i \in 1..Len(vol_alerts) : vol_alerts[i].tipo = "CONCENTRACION_VOLUMEN"

\* the alerts the analyzers produced, as the result of the batch holds them:
\* symbol, analyzer and position in the analyzer's list
AlertasProducidas ==
    UNION {UNION {{<<s, a, i>> : i \in 1..Len(todos_resultados[s][a]["alerts"])} :
                     a \in DOMAIN todos_resultados[s]} :
              s \in DOMAIN todos_resultados}

\* the alert of a position
AlertaProducida(p) == todos_resultados[p[1]][p[2]]["alerts"][p[3]]

\* the alert of a position with its symbol and analyzer attached, the type,
\* priority, value and other keys of the alert as produced
Etiquetada(p) ==
    LET a == AlertaProducida(p)
    IN  [campo \in DOMAIN a \cup {"simbolo", "analizador"} |->
            IF campo = "simbolo" THEN p[1]
            ELSE IF campo = "analizador" THEN p[2]
            ELSE a[campo]]

\* the last iteration of the loop on symbol s
UltimaIteracion(s) ==
    CHOOSE i \in 1..Len(historia) :
        /\ historia[i].simbolo = s
        /\ \A j \in (i + 1)..Len(historia) : historia[j].simbolo # s

\* C29: the consolidated list is a permutation of the alerts of all the
\* analyzers of all the symbols of the batch result, each with its symbol and
\* analyzer attached and its type, priority and value as produced; the batch
\* result has one entry per distinct symbol of the list, the one its analysis
\* returned, empty for a symbol without a snapshot.
C29_ConsolidacionConservaAlertas ==
    Consolidado =>
        /\ Len(alertas_consolidadas) = Cardinality(AlertasProducidas)
        /\ \A p \in AlertasProducidas :
              Cardinality({k \in 1..Len(alertas_consolidadas) :
                              alertas_consolidadas[k] = Etiquetada(p)})
                  = Cardinality({q \in AlertasProducidas :
                                    Etiquetada(q) = Etiquetada(p)})
        /\ DOMAIN todos_resultados = SeqRange(simbolos)
        /\ \A s \in SeqRange(simbolos) :
              /\ todos_resultados[s] = historia[UltimaIteracion(s)].resultado
              /\ historia[UltimaIteracion(s)].datos # "ok"
                    => todos_resultados[s] = EmptyDict

\* two symbols, the first without a snapshot, the second with alerts of two
\* analyzers that the consolidation reorders
C29_Witness ==
    /\ Consolidado
    /\ Len(simbolos) = 2 /\ simbolos[1] # simbolos[2]
    /\ historia[1].datos = "None" /\ todos_resultados[simbolos[1]] = EmptyDict
    /\ Len(alertas_consolidadas) >= 3
    /\ alertas_consolidadas # alertas_sin_ordenar(todos_resultados, orden_resultados)
    /\ \E i, j \in 1..Len(alertas_consolidadas) :
          alertas_consolidadas[i].analizador # alertas_consolidadas[j].analizador

\* the positions of the pre-event alerts of a category in events_alerts
PreEventoDe(categoria) ==
    {i \in 1..Len(events_alerts) :
        events_alerts[i].tipo \in PRE_EVENTO
            /\ events_alerts[i].descripcion = categoria}

\* the calendar dates of a category inside the window analyze looks at
FechasEnVentana(categoria) ==
    {e \in EntradasEnVentana(DIAS_ADELANTE_EVENTOS) : e[1] = categoria}

\* C30: after analyze and get_alerts on one symbol, the alert list holds at
\* most one pre-event alert per event category, however many dates of the
\* category are in the window, and never a defensive pre-event alert together
\* with an offensive one.
C30_UnaAlertaPreEventoPorCategoria ==
    (mode = "events" /\ pc = "alertado") =>
        /\ \A i \in 1..Len(EVENTOS_CALENDARIO) :
              Cardinality(PreEventoDe(EVENTOS_CALENDARIO[i].tipo)) <= 1
        /\ \A i \in 1..Len(events_alerts) :
              events_alerts[i].tipo \in PRE_EVENTO =>
                  FechasEnVentana(events_alerts[i].descripcion) # {}
        /\ ~\E i, j \in 1..Len(events_alerts) :
              /\ events_alerts[i].tipo = "VOLUMEN_DEFENSIVO_PRE_EVENTO"
              /\ events_alerts[j].tipo = "VOLUMEN_OFENSIVO_PRE_EVENTO"

\* two dates of a category and dates of two other categories in the window,
\* with one pre-event alert for each of the three categories
C30_Witness ==
    /\ mode = "events" /\ pc = "alertado"
    /\ \E i \in 1..Len(EVENTOS_CALENDARIO) :
          /\ Cardinality(FechasEnVentana(EVENTOS_CALENDARIO[i].tipo)) >= 2
          /\ Cardinality(PreEventoDe(EVENTOS_CALENDARIO[i].tipo)) = 1
    /\ \A i \in 1..Len(EVENTOS_CALENDARIO) :
          Cardinality(PreEventoDe(EVENTOS_CALENDARIO[i].tipo)) = 1

====
